---- MODULE Spec2Model ----
(***************************************************************************)
(* A model of gwob, the Wavefront OBJ decoder and writer (src/obj.go).     *)
(*                                                                         *)
(* Text is modelled at the level the code works on it:                     *)
(*   - a line is a record [kw, arg, f]: kw is the directive keyword the    *)
(*     HasPrefix switch of parseLineVertex/parseLine selects ("" for a     *)
(*     blank line, "#" for a comment, "?" for any other text), arg is the  *)
(*     rest of the line of a name directive (o, g, usemtl, mtllib), and f  *)
(*     is the rest of the line split on white space (strings.Fields);      *)
(*   - a field is a sequence of one-character strings, so that the slash   *)
(*     splitting, integer parsing and integer formatting of the code are   *)
(*     computed character by character;                                    *)
(*   - a float32 is an integer-valued token: the model's number texts are  *)
(*     unsigned digit strings, and the writer's "%f" appends ".000000".    *)
(***************************************************************************)
EXTENDS Integers, Sequences, FiniteSets, TLC

VARIABLES
    pc,        \* where readObj / ToWriter / the reload stands
    alphabet,  \* the lines the input source can yield
    opts,      \* ObjParserOptions: [IgnoreNormals]
    p,         \* objParser
    o,         \* Obj under construction / result of readObj
    pos,       \* scanLines: number of buffered lines already replayed
    err,       \* error returned by readObj: "" is nil
    log,       \* strings handed to options.log, in order (tags)
    refLog,    \* history: one entry per addVertex call of pass 2
    out,       \* text written by ToWriter (sequence of lines)
    werr,      \* error returned by ToWriter: "" is nil
    o2,        \* result of decoding the written text
    calls,     \* concurrent readObj calls: each call's own options, objParser,
               \* Obj, position and log
    mtl        \* a readLib call: its options, libParser, MaterialLib, the lines
               \* read, its log and the error it returned

vars == <<pc, alphabet, opts, p, o, pos, err, log, refLog, out, werr, o2, calls, mtl>>

----------------------------------------------------------------------------
(* Bounds of the model *)

MaxLines == 4

\* most indices handed to NewObjFromVertex
MaxIndices == 3

\* lines of the input of each of the concurrent readObj calls
MaxCallLines == 3

\* vertex records of a Mesh handed to ToWriter as it stands
MaxElements == 2

\* lines of the input of readLib, the last one included
MaxLibLines == 3

----------------------------------------------------------------------------
(* Characters, integers and floats as text *)

Digits == <<"0", "1", "2", "3", "4", "5", "6", "7", "8", "9">>

IsDigit(c) == \E i \in 1..10 : Digits[i] = c

DigitVal(c) == (CHOOSE i \in 1..10 : Digits[i] = c) - 1

RECURSIVE DigitsVal(_)
DigitsVal(s) ==
    IF s = <<>> THEN 0
    ELSE 10 * DigitsVal(SubSeq(s, 1, Len(s) - 1)) + DigitVal(s[Len(s)])

AllDigits(s) == s # <<>> /\ \A i \in 1..Len(s) : IsDigit(s[i])

\* the largest value of the bit size 32 handed to strconv.ParseInt
MaxInt32 == 2147483647

IntResult(okDigits, neg, mag) ==
    IF okDigits /\ (IF neg THEN mag - 1 <= MaxInt32 ELSE mag <= MaxInt32)
    THEN [ok |-> TRUE, v |-> IF neg THEN 0 - mag ELSE mag]
    ELSE [ok |-> FALSE, v |-> 0]

Signed(s) == s # <<>> /\ s[1] \in {"+", "-"}

Negative(s) == s # <<>> /\ s[1] = "-"

Unsigned(s) == IF Signed(s) THEN Tail(s) ELSE s

\* strconv.ParseInt(s, 10, 32): [ok, v]
ParseInt10(s) ==
    IntResult(AllDigits(Unsigned(s)), Negative(s), DigitsVal(Unsigned(s)))

\* strconv.Itoa
RECURSIVE NatStr(_)
NatStr(n) ==
    IF n < 10 THEN <<Digits[n + 1]>>
    ELSE NatStr(n \div 10) \o <<Digits[(n % 10) + 1]>>

Itoa(n) == IF n < 0 THEN <<"-">> \o NatStr(0 - n) ELSE NatStr(n)

\* position of the first "." of s, 0 if none
DotAt(s) ==
    IF \E i \in 1..Len(s) : s[i] = "."
    THEN CHOOSE i \in 1..Len(s) : s[i] = "." /\ \A j \in 1..(i - 1) : s[j] # "."
    ELSE 0

IntPart(s) == IF DotAt(s) = 0 THEN s ELSE SubSeq(s, 1, DotAt(s) - 1)

FracPart(s) == IF DotAt(s) = 0 THEN <<>> ELSE SubSeq(s, DotAt(s) + 1, Len(s))

\* strconv.ParseFloat on the number texts of the model: digits, optionally
\* followed by a fraction of zeros
ParseFloat(s) ==
    IF AllDigits(IntPart(s)) /\ \A i \in 1..Len(FracPart(s)) : FracPart(s)[i] = "0"
    THEN [ok |-> TRUE, v |-> DigitsVal(IntPart(s))]
    ELSE [ok |-> FALSE, v |-> 0]

\* fmt "%f" of an integer-valued float32
FormatFloat(x) == NatStr(x) \o <<".", "0", "0", "0", "0", "0", "0">>

----------------------------------------------------------------------------
(* Lines *)

Line(kw, arg, f) == [kw |-> kw, arg |-> arg, f |-> f]

Blank == Line("", "", <<>>)

Comment == Line("#", "", <<>>)

----------------------------------------------------------------------------
(* Numeric field parser *)

ConsFloat(h, t) ==
    IF h.ok /\ t.ok THEN [ok |-> TRUE, v |-> <<h.v>> \o t.v]
    ELSE [ok |-> FALSE, v |-> <<>>]

\* parseFloatSlice: [ok, v], the fields parsed in order
RECURSIVE parseFloatSlice(_)
parseFloatSlice(list) ==
    IF list = <<>> THEN [ok |-> TRUE, v |-> <<>>]
    ELSE ConsFloat(ParseFloat(list[1]), parseFloatSlice(Tail(list)))

\* parseFloatVector3Space: exactly three fields
parseFloatVector3Space(list) ==
    IF Len(list) # 3 THEN [ok |-> FALSE, v |-> <<>>]
    ELSE parseFloatSlice(list)

\* x/w of the homogeneous form; the quotient is taken in the integers
HomDiv(x, w) == IF w = 0 THEN 0 ELSE x \div w

----------------------------------------------------------------------------
(* Construction *)

NewParser ==
    [lineBuf |-> <<>>, lineCount |-> 0,
     vertCoord |-> <<>>, textCoord |-> <<>>, normCoord |-> <<>>,
     currGroup |-> 0, indexTable |-> {}, indexCount |-> 0,
     vertLines |-> 0, textLines |-> 0, normLines |-> 0,
     faceLines |-> 0, triangles |-> 0]

NewObj ==
    [Indices |-> <<>>, Coord |-> <<>>, Mtllib |-> "", Groups |-> <<>>,
     BigIndexFound |-> FALSE, TextCoordFound |-> FALSE, NormCoordFound |-> FALSE,
     StrideSize |-> 0, StrideOffsetPosition |-> 0,
     StrideOffsetTexture |-> 0, StrideOffsetNormal |-> 0]

\* Obj.newGroup: the group appended; the pointer returned is Len(Groups)
newGroup(ob, name, usemtl, begin, smooth) ==
    [ob EXCEPT !.Groups = Append(@,
        [Name |-> name, Smooth |-> smooth, Usemtl |-> usemtl,
         IndexBegin |-> begin, IndexCount |-> 0])]

----------------------------------------------------------------------------
(* Pass 1 *)

PV(p1, e, lg) == [p |-> p1, e |-> e, log |-> lg]

\* parseLineVertex, a vt line whose fields parsed as t
textureLine(p1, t) ==
    IF ~t.ok THEN PV(p1, "bad vertex texture", <<>>)
    ELSE IF Len(t.v) < 2 \/ Len(t.v) > 3 THEN PV(p1, "bad vertex texture size", <<>>)
    ELSE PV([p1 EXCEPT !.textCoord = @ \o <<t.v[1], t.v[2]>>], "",
            IF Len(t.v) > 2 /\ t.v[3] # 0
            THEN <<"non-zero third texture coordinate">> ELSE <<>>)

\* parseLineVertex, a vn line whose fields parsed as n
normalLine(p1, n) ==
    IF ~n.ok THEN PV(p1, "bad vertex normal", <<>>)
    ELSE PV([p1 EXCEPT !.normCoord = @ \o n.v], "", <<>>)

\* parseLineVertex, a v line whose fields parsed as r
positionLine(p1, r) ==
    IF ~r.ok THEN PV(p1, "bad vertex", <<>>)
    ELSE IF Len(r.v) = 3 THEN PV([p1 EXCEPT !.vertCoord = @ \o r.v], "", <<>>)
    ELSE IF Len(r.v) = 4
    THEN PV([p1 EXCEPT !.vertCoord = @ \o <<HomDiv(r.v[1], r.v[4]),
                                             HomDiv(r.v[2], r.v[4]),
                                             HomDiv(r.v[3], r.v[4])>>], "", <<>>)
    ELSE PV(p1, "bad number of coords", <<>>)

\* parseLineVertex after the line is saved for pass 2
classifyVertex(p1, line) ==
    CASE line.kw \in {"", "#", "s", "o", "g", "usemtl", "mtllib", "f"} -> PV(p1, "", <<>>)
      [] line.kw = "vt" -> textureLine(p1, parseFloatSlice(line.f))
      [] line.kw = "vn" -> normalLine(p1, parseFloatVector3Space(line.f))
      [] line.kw = "v" -> positionLine(p1, parseFloatSlice(line.f))
      [] OTHER -> PV(p1, "unexpected", <<>>)

\* the line is saved for pass 2 only if pass 1 raises no error on it
parseLineVertexSaveGood(pp, line) ==
    IF classifyVertex(pp, line).e # "" THEN classifyVertex(pp, line)
    ELSE classifyVertex([pp EXCEPT !.lineBuf = Append(@, line)], line)

\* parseLineVertex: [p, e, log]; e = "" is nil
parseLineVertex(pp, line) ==
    classifyVertex([pp EXCEPT !.lineBuf = Append(@, line)], line)

ErrLog(who, e) == IF e # "" THEN <<who \o e>> ELSE <<>>

readResult(r) == [p |-> r.p, log |-> r.log \o ErrLog("readLines: ", r.e)]

\* readLines, one turn of the loop on a line read without error: [p, log]
readLinesStep(pp, line) ==
    readResult(parseLineVertex([pp EXCEPT !.lineCount = @ + 1], line))

----------------------------------------------------------------------------
(* Pass 2: index resolution and vertex welding *)

BigIndex == 65535

solveRelativeIndex(index, size) ==
    IF index > 0 THEN index - 1 ELSE size + index

IsDoubleSlash(s, i) == s[i] = "/" /\ s[i + 1] = "/"

\* strings.Index(s, "//"): position of the first "//", 0 if none
DoubleSlashAt(s) ==
    IF \E i \in 1..(Len(s) - 1) : IsDoubleSlash(s, i)
    THEN CHOOSE i \in 1..(Len(s) - 1) :
            IsDoubleSlash(s, i) /\ \A j \in 1..(i - 1) : ~IsDoubleSlash(s, j)
    ELSE 0

\* strings.Replace(s, "//", "/0/", 1)
ReplaceDoubleSlash(s) ==
    IF DoubleSlashAt(s) = 0 THEN s
    ELSE SubSeq(s, 1, DoubleSlashAt(s)) \o <<"0">>
         \o SubSeq(s, DoubleSlashAt(s) + 1, Len(s))

\* length of the run of s before its first '/'
RunLen(s) ==
    IF \E i \in 1..Len(s) : s[i] = "/"
    THEN (CHOOSE i \in 1..Len(s) : s[i] = "/" /\ \A j \in 1..(i - 1) : s[j] # "/") - 1
    ELSE Len(s)

\* splitSlash: strings.FieldsFunc on '/', the non-empty runs between slashes
RECURSIVE splitSlash(_)
splitSlash(s) ==
    IF s = <<>> THEN <<>>
    ELSE IF s[1] = "/" THEN splitSlash(Tail(s))
    ELSE <<SubSeq(s, 1, RunLen(s))>> \o splitSlash(SubSeq(s, RunLen(s) + 1, Len(s)))

\* pushIndex that leaves the group's IndexCount alone
pushIndexUncounted(ob, g, i) ==
    [ob EXCEPT !.Indices = Append(@, i),
               !.BigIndexFound = @ \/ i > BigIndex]

\* pushIndex with the flag raised from 65535 on
pushIndexFrom65535(ob, g, i) ==
    [ob EXCEPT !.BigIndexFound = IF i >= BigIndex THEN TRUE ELSE @,
               !.Indices = Append(@, i),
               !.Groups[g].IndexCount = @ + 1]

\* pushIndex on the group at position g of Groups
pushIndex(ob, g, i) ==
    [ob EXCEPT !.BigIndexFound = IF i > BigIndex THEN TRUE ELSE @,
               !.Indices = Append(@, i),
               !.Groups[g].IndexCount = @ + 1]

\* the parts of the composite key: the position index, and the texture and
\* the normal index as texts, empty where the reference has none
absIndex(vi, tIndex, nIndex) == <<Itoa(vi), tIndex, nIndex>>

\* a part the reference does not have is written as index 0
keyStringZeroForAbsent(key) ==
    key[1] \o <<"/">> \o (IF key[2] = <<>> THEN <<"0">> ELSE key[2])
           \o <<"/">> \o (IF key[3] = <<>> THEN <<"0">> ELSE key[3])

\* fmt.Sprintf("%d/%s/%s", vi, tIndex, nIndex): the string indexTable is
\* keyed by
keyString(key) == key[1] \o <<"/">> \o key[2] \o <<"/">> \o key[3]

\* a welding table that never finds a key
InTableNever(table, key) == FALSE

InTable(table, key) == \E e \in table : keyString(e.key) = keyString(key)

Lookup(table, key) == (CHOOSE e \in table : keyString(e.key) = keyString(key)).idx

\* the result of an addVertex call: e = "" is nil, panic is a run-time index
\* panic, ev is the history entry of the call (idx -1: no index pushed; added:
\* number of floats appended to Coord)
AV(p1, o1, index, key, e, pan, idx, added) ==
    [p |-> p1, o |-> o1, e |-> e, panic |-> pan,
     ev |-> [line |-> p1.lineCount, text |-> index, key |-> key, e |-> e,
             panic |-> pan, idx |-> idx, added |-> added]]

appendPosition(ob, pp, vi) ==
    [ob EXCEPT !.Coord = @ \o SubSeq(pp.vertCoord, 3 * vi + 1, 3 * vi + 3)]

appendTexture(ob, pp, ti) ==
    [ob EXCEPT !.Coord = @ \o SubSeq(pp.textCoord, 2 * ti + 1, 2 * ti + 2),
               !.TextCoordFound = TRUE]

appendNormal(ob, pp, ni) ==
    [ob EXCEPT !.Coord = @ \o SubSeq(pp.normCoord, 3 * ni + 1, 3 * ni + 3),
               !.NormCoordFound = TRUE]

\* the counter of unified indices advances by two
addUnifiedByTwo(pp, o3, index, key, added) ==
    AV([pp EXCEPT !.indexTable = @ \cup {[key |-> key, idx |-> pp.indexCount]},
                  !.indexCount = @ + 2],
       pushIndex(o3, pp.currGroup, pp.indexCount),
       index, key, "", FALSE, pp.indexCount, added)

\* addVertex, a new key: the unified index is added
addUnified(pp, o3, index, key, added) ==
    AV([pp EXCEPT !.indexTable = @ \cup {[key |-> key, idx |-> pp.indexCount]},
                  !.indexCount = @ + 1],
       pushIndex(o3, pp.currGroup, pp.indexCount),
       index, key, "", FALSE, pp.indexCount, added)

\* addVertex, a new key: the normal part; o2a holds position and texture
addNormal(pp, o2a, index, key, withN, ni, added) ==
    IF ~withN THEN addUnified(pp, o2a, index, key, added)
    ELSE IF 3 * ni < 0 \/ 3 * ni + 2 >= Len(pp.normCoord)
    THEN AV(pp, o2a, index, key, "", TRUE, 0 - 1, added)
    ELSE addUnified(pp, appendNormal(o2a, pp, ni), index, key, added + 3)

\* addVertex, a new key: the texture part; o1 holds the position
addTexture(pp, o1, index, key, withT, ti, withN, ni) ==
    IF ~withT THEN addNormal(pp, o1, index, key, withN, ni, 3)
    ELSE IF 2 * ti + 1 >= Len(pp.textCoord)
    THEN AV(pp, o1, index, key, "invalid texture index", FALSE, 0 - 1, 3)
    ELSE IF 2 * ti < 0
    THEN AV(pp, o1, index, key, "", TRUE, 0 - 1, 3)
    ELSE addNormal(pp, appendTexture(o1, pp, ti), index, key, withN, ni, 5)

\* a range check against the v lines replayed so far
positionPastReplayed(pp, vi) == vi >= pp.vertLines

\* addVertex: the range check of the position index, against the positions
\* pass 1 stored
positionPastEnd(pp, vi) == 3 * vi + 2 >= Len(pp.vertCoord)

\* normals stored whatever the option IgnoreNormals says
addKeyWithNormals(pp, ob, index, options, key, vi, hasT, ti, hasN, ni) ==
    IF InTable(pp.indexTable, key)
    THEN AV(pp, pushIndex(ob, pp.currGroup, Lookup(pp.indexTable, key)),
            index, key, "", FALSE, Lookup(pp.indexTable, key), 0)
    ELSE IF positionPastEnd(pp, vi)
    THEN AV(pp, ob, index, key, "invalid vertex index", FALSE, 0 - 1, 0)
    ELSE IF 3 * vi < 0
    THEN AV(pp, ob, index, key, "", TRUE, 0 - 1, 0)
    ELSE addTexture(pp, appendPosition(ob, pp, vi), index, key, hasT, ti, hasN, ni)

\* addVertex once the key is formed
addKey(pp, ob, index, options, key, vi, hasT, ti, hasN, ni) ==
    IF InTable(pp.indexTable, key)
    THEN AV(pp, pushIndex(ob, pp.currGroup, Lookup(pp.indexTable, key)),
            index, key, "", FALSE, Lookup(pp.indexTable, key), 0)
    ELSE IF positionPastEnd(pp, vi)
    THEN AV(pp, ob, index, key, "invalid vertex index", FALSE, 0 - 1, 0)
    ELSE IF 3 * vi < 0
    THEN AV(pp, ob, index, key, "", TRUE, 0 - 1, 0)
    ELSE addTexture(pp, appendPosition(ob, pp, vi), index, key,
                    hasT, ti, ~options.IgnoreNormals /\ hasN, ni)

\* addVertex once the indices are resolved
addResolved(pp, ob, index, options, vi, hasT, ti, hasN, ni) ==
    addKey(pp, ob, index, options,
           absIndex(vi, IF hasT THEN Itoa(ti) ELSE <<>>, IF hasN THEN Itoa(ni) ELSE <<>>),
           vi, hasT, ti, hasN, ni)

\* relative indices resolved against the totals pass 1 stored
addParsedFromTotals(pp, ob, index, options, v, hasT, t, hasN, n) ==
    IF ~v.ok THEN AV(pp, ob, index, <<>>, "bad integer 1st index", FALSE, 0 - 1, 0)
    ELSE IF ~t.ok THEN AV(pp, ob, index, <<>>, "bad integer 2nd index", FALSE, 0 - 1, 0)
    ELSE IF ~n.ok THEN AV(pp, ob, index, <<>>, "bad integer 3rd index", FALSE, 0 - 1, 0)
    ELSE addResolved(pp, ob, index, options,
                     solveRelativeIndex(v.v, Len(pp.vertCoord) \div 3),
                     hasT, IF hasT THEN solveRelativeIndex(t.v, Len(pp.textCoord) \div 2) ELSE 0,
                     hasN, IF hasN THEN solveRelativeIndex(n.v, Len(pp.normCoord) \div 3) ELSE 0)

\* addVertex once the fields are parsed as integers
addParsed(pp, ob, index, options, v, hasT, t, hasN, n) ==
    IF ~v.ok THEN AV(pp, ob, index, <<>>, "bad integer 1st index", FALSE, 0 - 1, 0)
    ELSE IF ~t.ok THEN AV(pp, ob, index, <<>>, "bad integer 2nd index", FALSE, 0 - 1, 0)
    ELSE IF ~n.ok THEN AV(pp, ob, index, <<>>, "bad integer 3rd index", FALSE, 0 - 1, 0)
    ELSE addResolved(pp, ob, index, options,
                     solveRelativeIndex(v.v, pp.vertLines),
                     hasT, IF hasT THEN solveRelativeIndex(t.v, pp.textLines) ELSE 0,
                     hasN, IF hasN THEN solveRelativeIndex(n.v, pp.normLines) ELSE 0)

NotParsed == [ok |-> TRUE, v |-> 0]

\* addVertex once the reference is split into ind; a texture index is read
\* when the text holds no "//" and has more than one field
addSplit(pp, ob, index, options, ind, hasT) ==
    IF Len(ind) < 1 \/ Len(ind) > 3
    THEN AV(pp, ob, index, <<>>, "bad index size", FALSE, 0 - 1, 0)
    ELSE addParsed(pp, ob, index, options,
                   ParseInt10(ind[1]),
                   hasT, IF hasT THEN ParseInt10(ind[2]) ELSE NotParsed,
                   Len(ind) > 2, IF Len(ind) > 2 THEN ParseInt10(ind[3]) ELSE NotParsed)

\* a texture index is read whenever the reference has more than one field
hasTextureCoordBySize(index, ind) == Len(ind) > 1

\* addVertex: hasTextureCoord
hasTextureCoord(index, ind) == DoubleSlashAt(index) = 0 /\ Len(ind) > 1

addInd(pp, ob, index, options, ind) ==
    addSplit(pp, ob, index, options, ind, hasTextureCoord(index, ind))

\* addVertex: [p, o, e, panic, ev]
addVertex(pp, ob, index, options) ==
    addInd(pp, ob, index, options, splitSlash(ReplaceDoubleSlash(index)))

----------------------------------------------------------------------------
(* Pass 2: directives *)

UpperCase == <<"A", "B", "C", "D", "E", "F", "O", "X">>

LowerCase == <<"a", "b", "c", "d", "e", "f", "o", "x">>

\* strings.ToLower on the letters of the model's texts
ToLower(s) ==
    [i \in 1..Len(s) |->
        IF \E k \in 1..Len(UpperCase) : UpperCase[k] = s[i]
        THEN LowerCase[CHOOSE k \in 1..Len(UpperCase) : UpperCase[k] = s[i]]
        ELSE s[i]]

HexDigits == Digits \o <<"a", "b", "c", "d", "e", "f">>

BaseDigitVal(c, base) ==
    IF \E i \in 1..base : HexDigits[i] = c
    THEN (CHOOSE i \in 1..base : HexDigits[i] = c) - 1
    ELSE 0 - 1

RECURSIVE BaseVal(_, _)
BaseVal(s, base) ==
    IF s = <<>> THEN 0
    ELSE base * BaseVal(SubSeq(s, 1, Len(s) - 1), base) + BaseDigitVal(s[Len(s)], base)

AllBaseDigits(s, base) ==
    s # <<>> /\ \A i \in 1..Len(s) : BaseDigitVal(s[i], base) >= 0

\* the base strconv.ParseInt(s, 0, 32) reads from the prefix of the unsigned text
BaseOf(body) ==
    IF Len(body) < 2 \/ body[1] # "0" THEN 10
    ELSE IF body[2] = "x" THEN 16
    ELSE IF body[2] = "b" THEN 2
    ELSE 8

\* the digits after the base prefix
AfterPrefix(body) ==
    IF BaseOf(body) = 10 THEN body
    ELSE IF body[2] \in {"x", "b", "o"} THEN SubSeq(body, 3, Len(body))
    ELSE Tail(body)

\* strconv.ParseInt(s, 0, 32) on lower-cased text without '_': [ok, v]
ParseInt0(s) ==
    IntResult(AllBaseDigits(AfterPrefix(Unsigned(s)), BaseOf(Unsigned(s))),
              Negative(s),
              BaseVal(AfterPrefix(Unsigned(s)), BaseOf(Unsigned(s))))

smoothToken(s) ==
    IF s = <<"o", "f", "f">> THEN [ok |-> TRUE, v |-> 0] ELSE ParseInt0(s)

\* the token read in base 10 only
smoothGroupDecimal(f) ==
    IF Len(f) # 1 THEN [ok |-> FALSE, v |-> 0]
    ELSE IF ToLower(f[1]) = <<"o", "f", "f">> THEN [ok |-> TRUE, v |-> 0]
    ELSE ParseInt10(ToLower(f[1]))

\* smoothGroup on the fields of the rest of the line: [ok, v]
smoothGroup(f) ==
    IF Len(f) # 1 THEN [ok |-> FALSE, v |-> 0] ELSE smoothToken(ToLower(f[1]))

\* a quad split as a fan: (v0,v1,v2) and (v0,v2,v3)
faceOrderFan(size) ==
    IF size > 3 THEN <<1, 2, 3, 1, 3, 4>> ELSE <<1, 2, 3>>

\* the order in which parseLine hands the references of a face to addVertex
faceOrder(size) ==
    IF size > 3 THEN <<1, 2, 3, 3, 4, 1>> ELSE <<1, 2, 3>>

\* a face line after one more addVertex call returned r
faceStep(st, r) ==
    [p |-> r.p, o |-> r.o, e |-> r.e, panic |-> r.panic, evs |-> Append(st.evs, r.ev)]

\* p.triangles++ before the second triangle of a quad
countTriangle(pp, f, order) ==
    IF Len(order) = 3 /\ Len(f) > 3 THEN [pp EXCEPT !.triangles = @ + 1] ELSE pp

\* the addVertex calls of one face line, stopped by the first error or panic;
\* st is [p, o, e, panic, evs]
RECURSIVE addVertices(_, _, _, _)
addVertices(st, f, order, options) ==
    IF order = <<>> \/ st.e # "" \/ st.panic THEN st
    ELSE addVertices(
            faceStep(st, addVertex(countTriangle(st.p, f, order), st.o, f[order[1]], options)),
            f, Tail(order), options)

\* the result of parseLine: [p, o, e, panic, log, evs]
PL(p1, o1, e, lg) ==
    [p |-> p1, o |-> o1, e |-> e, panic |-> FALSE, log |-> lg, evs |-> <<>>]

\* the new group is appended and the group before it stays the current one
startGroupStaysBehind(pp, ob, name, usemtl, smooth) ==
    PL(pp, newGroup(ob, name, usemtl, Len(ob.Indices), smooth), "", <<>>)

\* the new group starts at the head of Indices
startGroupAtZero(pp, ob, name, usemtl, smooth) ==
    PL([pp EXCEPT !.currGroup = Len(ob.Groups) + 1],
       newGroup(ob, name, usemtl, 0, smooth), "", <<>>)

\* a new group is appended and becomes the current one
startGroup(pp, ob, name, usemtl, smooth) ==
    PL([pp EXCEPT !.currGroup = Len(ob.Groups) + 1],
       newGroup(ob, name, usemtl, Len(ob.Indices), smooth), "", <<>>)

\* parseLine on an s line whose token parsed as s; cur is the current group
smoothLine(pp, ob, cur, s) ==
    IF ~s.ok THEN PL(pp, ob, "bad boolean smooth", <<>>)
    ELSE IF cur.Smooth # s.v THEN startGroup(pp, ob, cur.Name, cur.Usemtl, s.v)
    ELSE PL(pp, ob, "", <<>>)

\* a name other than the current one opens a group without material and
\* with smoothing off
nameLineFresh(pp, ob, cur, name) ==
    IF cur.Name = ""
    THEN PL(pp, [ob EXCEPT !.Groups[pp.currGroup].Name = name], "", <<>>)
    ELSE IF cur.Name # name THEN startGroup(pp, ob, name, "", 0)
    ELSE PL(pp, ob, "", <<>>)

\* parseLine on an o or g line
nameLine(pp, ob, cur, name) ==
    IF cur.Name = ""
    THEN PL(pp, [ob EXCEPT !.Groups[pp.currGroup].Name = name], "", <<>>)
    ELSE IF cur.Name # name THEN startGroup(pp, ob, name, cur.Usemtl, cur.Smooth)
    ELSE PL(pp, ob, "", <<>>)

\* no group is ever marked
markEmptyNever(pp, ob, cur) == ob

\* the current group marked as bogus if it is empty
markEmpty(pp, ob, cur) ==
    IF cur.IndexCount = 0
    THEN [ob EXCEPT !.Groups[pp.currGroup].IndexCount = 0 - 1]
    ELSE ob

\* the sentinel is set on the group that is started
usemtlLineMarksNew(pp, ob, cur, usemtl) ==
    IF cur.Usemtl = ""
    THEN PL(pp, [ob EXCEPT !.Groups[pp.currGroup].Usemtl = usemtl], "", <<>>)
    ELSE IF cur.Usemtl # usemtl
    THEN PL([pp EXCEPT !.currGroup = Len(ob.Groups) + 1],
            [ob EXCEPT !.Groups = Append(@,
                [Name |-> cur.Name, Smooth |-> cur.Smooth, Usemtl |-> usemtl,
                 IndexBegin |-> Len(ob.Indices), IndexCount |-> 0 - 1])],
            "", <<>>)
    ELSE PL(pp, ob, "", <<>>)

\* the material is always set on the current group
usemtlLineInPlace(pp, ob, cur, usemtl) ==
    PL(pp, [ob EXCEPT !.Groups[pp.currGroup].Usemtl = usemtl], "", <<>>)

\* parseLine on a usemtl line
usemtlLine(pp, ob, cur, usemtl) ==
    IF cur.Usemtl = ""
    THEN PL(pp, [ob EXCEPT !.Groups[pp.currGroup].Usemtl = usemtl], "", <<>>)
    ELSE IF cur.Usemtl # usemtl
    THEN startGroup(pp, markEmpty(pp, ob, cur), cur.Name, usemtl, cur.Smooth)
    ELSE PL(pp, ob, "", <<>>)

\* parseLine on a mtllib line
mtllibLine(pp, ob, mtllib) ==
    PL(pp, [ob EXCEPT !.Mtllib = mtllib], "",
       IF ob.Mtllib # "" THEN <<"parseLine: mtllib redefinition">> ELSE <<>>)

faceResult(r) ==
    [p |-> r.p, o |-> r.o, e |-> IF r.e # "" THEN "bad face: " \o r.e ELSE "",
     panic |-> r.panic, log |-> <<>>, evs |-> r.evs]

\* a face of more than four references is taken as a quad of its first four
faceLineNoUpperLimit(p1, ob, f, options) ==
    IF Len(f) < 3 THEN PL(p1, ob, "bad face size", <<>>)
    ELSE faceResult(addVertices(
            [p |-> [p1 EXCEPT !.triangles = @ + 1], o |-> ob,
             e |-> "", panic |-> FALSE, evs |-> <<>>],
            f, faceOrder(Len(f)), options))

\* parseLine on an f line; p1 has the face counted
faceLine(p1, ob, f, options) ==
    IF Len(f) < 3 \/ Len(f) > 4 THEN PL(p1, ob, "bad face size", <<>>)
    ELSE faceResult(addVertices(
            [p |-> [p1 EXCEPT !.triangles = @ + 1], o |-> ob,
             e |-> "", panic |-> FALSE, evs |-> <<>>],
            f, faceOrder(Len(f)), options))

\* parseLine: [p, o, e, panic, log, evs]
parseLine(pp, ob, line, options) ==
    CASE line.kw \in {"", "#"} -> PL(pp, ob, "", <<>>)
      [] line.kw = "s" ->
           smoothLine(pp, ob, ob.Groups[pp.currGroup], smoothGroup(line.f))
      [] line.kw \in {"o", "g"} ->
           nameLine(pp, ob, ob.Groups[pp.currGroup], line.arg)
      [] line.kw = "usemtl" ->
           usemtlLine(pp, ob, ob.Groups[pp.currGroup], line.arg)
      [] line.kw = "mtllib" -> mtllibLine(pp, ob, line.arg)
      [] line.kw = "f" ->
           faceLine([pp EXCEPT !.faceLines = @ + 1], ob, line.f, options)
      [] line.kw = "v" -> PL([pp EXCEPT !.vertLines = @ + 1], ob, "", <<>>)
      [] line.kw = "vt" -> PL([pp EXCEPT !.textLines = @ + 1], ob, "", <<>>)
      [] line.kw = "vn" -> PL([pp EXCEPT !.normLines = @ + 1], ob, "", <<>>)
      [] OTHER -> PL(pp, ob, "unexpected", <<>>)

scanResult(r) ==
    [p |-> r.p, o |-> r.o, panic |-> r.panic, evs |-> r.evs,
     log |-> r.log \o ErrLog("scanLines: ", r.e)]

\* scanLines, one turn of the loop: [p, o, panic, log, evs]
scanLinesStep(pp, ob, line, options) ==
    scanResult(parseLine([pp EXCEPT !.lineCount = @ + 1], ob, line, options))

----------------------------------------------------------------------------
(* readObj: between the passes, and the output step *)

\* readObj after pass 1: the counters reset, then the head of scanLines
startScan(pp, ob) ==
    [p |-> [pp EXCEPT !.faceLines = 0, !.vertLines = 0, !.textLines = 0,
                      !.normLines = 0, !.currGroup = Len(ob.Groups) + 1,
                      !.lineCount = 0],
     o |-> newGroup(ob, "", "", 0, 0)]

\* setupStride with the normal slot always after a texture slot
setupStrideFixedNormal(ob) ==
    [ob EXCEPT !.StrideOffsetPosition = 0,
               !.StrideOffsetTexture = IF ob.TextCoordFound THEN 12 ELSE 0,
               !.StrideOffsetNormal = IF ob.NormCoordFound THEN 20 ELSE 0,
               !.StrideSize = 12 + (IF ob.TextCoordFound THEN 8 ELSE 0)
                                 + (IF ob.NormCoordFound THEN 12 ELSE 0)]


setupStride(ob) ==
    [ob EXCEPT !.StrideOffsetPosition = 0,
               !.StrideOffsetTexture = IF ob.TextCoordFound THEN 12 ELSE 0,
               !.StrideOffsetNormal =
                   IF ob.NormCoordFound
                   THEN 12 + (IF ob.TextCoordFound THEN 8 ELSE 0) ELSE 0,
               !.StrideSize = 12 + (IF ob.TextCoordFound THEN 8 ELSE 0)
                                 + (IF ob.NormCoordFound THEN 12 ELSE 0)]

\* groups of fewer than three indices are dropped with the marked ones
dropSmallGroups(groups) == SelectSeq(groups, LAMBDA g : g.IndexCount >= 3)

\* no group is dropped
keepAllGroups(groups) == groups

\* readObj step 3, the groups kept
dropEmptyGroups(groups) == SelectSeq(groups, LAMBDA g : g.IndexCount >= 0)

\* readObj step 3, the diagnostics: one per kept group of fewer than 3
\* indices, then the statistics
outputLog(kept, options) ==
    [i \in 1..Len(SelectSeq(kept, LAMBDA g : g.IndexCount < 3)) |->
        "readObj: BAD GROUP SIZE"]
    \o (IF options.LogStats
        THEN <<"readObj: INPUT", "readObj: STATS", "readObj: STATS",
               "readObj: STATS", "readObj: STATS">>
             \o [i \in 1..Len(kept) |-> "readObj: GROUP"]
        ELSE <<>>)

\* readObj step 3: [o, log]
output(pp, ob, options) ==
    [o |-> setupStride([ob EXCEPT !.Groups = dropEmptyGroups(ob.Groups)]),
     log |-> outputLog(dropEmptyGroups(ob.Groups), options)]

\* NewObjFromVertex: the loop over indices, on the group at position 1
RECURSIVE pushIndices(_, _)
pushIndices(ob, indices) ==
    IF indices = <<>> THEN ob
    ELSE pushIndices(pushIndex(ob, 1, indices[1]), Tail(indices))

\* only the whole triangles of indices are pushed
NewObjFromVertexWhole(coord, indices) ==
    setupStride(pushIndices([newGroup(NewObj, "", "", 0, 0) EXCEPT !.Coord = coord],
                            SubSeq(indices, 1, 3 * (Len(indices) \div 3))))

\* NewObjFromVertex: the Obj returned (the error returned is always nil)
NewObjFromVertex(coord, indices) ==
    setupStride(pushIndices([newGroup(NewObj, "", "", 0, 0) EXCEPT !.Coord = @ \o coord],
                            indices))

----------------------------------------------------------------------------
(* The writer *)

\* Obj.NumberOfElements
NumberOfElements(ob) == (4 * Len(ob.Coord)) \div ob.StrideSize

\* "%f %f ..." of n floats of Coord from offset at (from 0)
floatFields(ob, at, n) == [i \in 1..n |-> FormatFloat(ob.Coord[at + i])]

\* the lines ToWriter writes for the vertex record that starts at float stride
vertexLines(ob, stride) ==
    <<Line("v", "", floatFields(ob, stride + ob.StrideOffsetPosition \div 4, 3))>>
    \o (IF ob.TextCoordFound
        THEN <<Line("vt", "", floatFields(ob, stride + ob.StrideOffsetTexture \div 4, 2))>>
        ELSE <<>>)
    \o (IF ob.NormCoordFound
        THEN <<Line("vn", "", floatFields(ob, stride + ob.StrideOffsetNormal \div 4, 3))>>
        ELSE <<>>)

RECURSIVE vertexData(_, _, _)
vertexData(ob, s, strides) ==
    IF s >= strides THEN <<>>
    ELSE vertexLines(ob, (s * ob.StrideSize) \div 4) \o vertexData(ob, s + 1, strides)

\* one face reference of the writer, for the text str of the index
slashFormat(ob, str) ==
    IF ob.TextCoordFound
    THEN IF ob.NormCoordFound
         THEN str \o <<"/">> \o str \o <<"/">> \o str
         ELSE str \o <<"/">> \o str
    ELSE IF ob.NormCoordFound
         THEN str \o <<"/", "/">> \o str
         ELSE str

\* the reference written from the 0-based index
faceRefZeroBased(ob, ff) == slashFormat(ob, Itoa(ff - 1))

faceRef(ob, ff) == slashFormat(ob, Itoa(ff))

\* the face lines of the index range [s, pastEnd)
RECURSIVE faceLinesOf(_, _, _)
faceLinesOf(ob, s, pastEnd) ==
    IF s >= pastEnd THEN <<>>
    ELSE <<Line("f", "", [k \in 1..3 |-> faceRef(ob, ob.Indices[s + k] + 1)])>>
         \o faceLinesOf(ob, s + 3, pastEnd)

\* the name, material and smoothing lines of a group
groupHead(g) ==
    (IF g.Name # "" THEN <<Line("g", g.Name, <<>>)>> ELSE <<>>)
    \o (IF g.Usemtl # "" THEN <<Line("usemtl", g.Usemtl, <<>>)>> ELSE <<>>)
    \o <<Line("s", "", <<Itoa(g.Smooth)>>)>>

groupThen(lines, rest) == [out |-> lines \o rest.out, err |-> rest.err]

\* a group loop that writes the whole triangles of every group and never fails
RECURSIVE writeGroupsLenient(_, _)
writeGroupsLenient(ob, gi) ==
    IF gi > Len(ob.Groups) THEN [out |-> <<>>, err |-> ""]
    ELSE groupThen(groupHead(ob.Groups[gi])
                   \o faceLinesOf(ob, ob.Groups[gi].IndexBegin,
                                  ob.Groups[gi].IndexBegin
                                      + 3 * (ob.Groups[gi].IndexCount \div 3)),
                   writeGroupsLenient(ob, gi + 1))

\* the group loop of ToWriter from group gi on: [out, err]
RECURSIVE writeGroups(_, _)
writeGroups(ob, gi) ==
    IF gi > Len(ob.Groups) THEN [out |-> <<>>, err |-> ""]
    ELSE IF ob.Groups[gi].IndexCount % 3 # 0
    THEN [out |-> groupHead(ob.Groups[gi]), err |-> "count must be a multiple of 3"]
    ELSE groupThen(groupHead(ob.Groups[gi])
                   \o faceLinesOf(ob, ob.Groups[gi].IndexBegin,
                                  ob.Groups[gi].IndexBegin + ob.Groups[gi].IndexCount),
                   writeGroups(ob, gi + 1))

\* the lines ToWriter writes before the groups
writeHead(ob) ==
    <<Comment, Blank>>
    \o (IF ob.Mtllib # "" THEN <<Line("mtllib", ob.Mtllib, <<>>)>> ELSE <<>>)
    \o vertexData(ob, 0, NumberOfElements(ob))

\* Obj.ToWriter: [out, err]
ToWriter(ob) == groupThen(writeHead(ob), writeGroups(ob, 1))

----------------------------------------------------------------------------
(* readObj as a function of the whole input, used to decode written text *)

readAcc(st, r) == [p |-> r.p, log |-> st.log \o r.log]

RECURSIVE readLinesAll(_, _)
readLinesAll(st, lines) ==
    IF lines = <<>> THEN st
    ELSE readLinesAll(readAcc(st, readLinesStep(st.p, lines[1])), Tail(lines))

scanAcc(st, r) == [p |-> r.p, o |-> r.o, panic |-> r.panic, log |-> st.log \o r.log]

RECURSIVE scanLinesAll(_, _, _)
scanLinesAll(st, i, options) ==
    IF i > Len(st.p.lineBuf) \/ st.panic THEN st
    ELSE scanLinesAll(scanAcc(st, scanLinesStep(st.p, st.o, st.p.lineBuf[i], options)),
                      i + 1, options)

returned(r2, r3) == [o |-> r3.o, err |-> "", panic |-> FALSE, log |-> r2.log \o r3.log]

\* readObj after pass 2 ended in state r2
afterScan(r2, options) ==
    IF r2.panic THEN [o |-> r2.o, err |-> "", panic |-> TRUE, log |-> r2.log]
    ELSE returned(r2, output(r2.p, r2.o, options))

scanFrom(s0, lg, options) ==
    afterScan(scanLinesAll([p |-> s0.p, o |-> s0.o, panic |-> FALSE, log |-> lg],
                           1, options),
              options)

afterRead(r1, options) == scanFrom(startScan(r1.p, NewObj), r1.log, options)

\* readObj on an input whose reads all succeed; the last line is the one
\* read together with end-of-input: [o, err, panic, log]
readObj(lines, options) ==
    afterRead(readLinesAll([p |-> NewParser, log |-> <<>>], lines), options)

----------------------------------------------------------------------------
(* The input source *)

\* a reference text: position index, then "/" texture index, then "/" normal
\* index; tt and nn say which parts are written
Ref(v, tt, t, nn, n) ==
    Itoa(v)
    \o (IF tt THEN <<"/">> \o Itoa(t) ELSE IF nn THEN <<"/">> ELSE <<>>)
    \o (IF nn THEN <<"/">> \o Itoa(n) ELSE <<>>)

RefV(v) == Ref(v, FALSE, 0, FALSE, 0)

Face(refs) == Line("f", "", refs)

\* the k-th v, vt and vn line of an input carry values that tell them apart
VLine(k) == Line("v", "", <<NatStr(k), NatStr(k), NatStr(k)>>)

VtLine(k) == Line("vt", "", <<NatStr(10 + k), NatStr(10 + k)>>)

VnLine(k) == Line("vn", "", <<NatStr(20 + k), NatStr(20 + k), NatStr(20 + k)>>)

ComponentLines(pp) ==
    {VLine(Len(pp.vertCoord) \div 3 + 1),
     VtLine(Len(pp.textCoord) \div 2 + 1),
     VnLine(Len(pp.normCoord) \div 3 + 1)}

\* a face in each reference format on the first components, the last one with
\* a relative reference; a relative face, a quad that names two vertices both
\* ways, and a face whose second reference is out of range unless three v
\* lines exist
GeomFaces ==
    {Face(<<RefV(1), RefV(1), RefV(1)>>),
     Face(<<Ref(1, TRUE, 1, FALSE, 0), Ref(1, TRUE, 1, FALSE, 0), Ref(1, TRUE, 1, FALSE, 0)>>),
     Face(<<Ref(1, FALSE, 0, TRUE, 1), Ref(1, FALSE, 0, TRUE, 1), Ref(1, FALSE, 0, TRUE, 1)>>),
     Face(<<Ref(1, TRUE, 1, TRUE, 1), Ref(0 - 1, TRUE, 0 - 1, TRUE, 0 - 1), Ref(1, TRUE, 1, TRUE, 1)>>),
     Face(<<RefV(0 - 1), RefV(0 - 2), RefV(0 - 1)>>),
     Face(<<RefV(1), RefV(2), RefV(0 - 1), RefV(0 - 2)>>),
     Face(<<RefV(1), RefV(3), RefV(1)>>)}

\* directives of the group state machine, with a face that succeeds once a v
\* line exists and a face that fails at its second reference
GroupLines ==
    {Face(<<RefV(1), RefV(1), RefV(1)>>),
     Face(<<RefV(1), RefV(0), RefV(1)>>),
     Line("g", "a", <<>>), Line("o", "b", <<>>),
     Line("usemtl", "m", <<>>), Line("usemtl", "n", <<>>),
     Line("s", "", <<<<"1">>>>), Line("s", "", <<<<"o", "f", "f">>>>),
     Line("mtllib", "x", <<>>), Line("mtllib", "y", <<>>)}

\* v and vn lines pass 1 stores, a v line whose field is no number and a vn
\* line of two fields, which pass 1 rejects, and faces of relative references
RejectedLines(pp) ==
    {VLine(Len(pp.vertCoord) \div 3 + 1),
     VnLine(Len(pp.normCoord) \div 3 + 1),
     Line("v", "", <<<<"x">>>>),
     Line("vn", "", <<<<"1">>, <<"1">>>>),
     Face(<<RefV(0 - 1), RefV(0 - 1), RefV(0 - 1)>>),
     Face(<<RefV(0 - 2), RefV(0 - 2), RefV(0 - 2)>>),
     Face(<<Ref(0 - 1, FALSE, 0, TRUE, 0 - 1), Ref(0 - 1, FALSE, 0, TRUE, 0 - 1),
            Ref(0 - 1, FALSE, 0, TRUE, 0 - 1)>>)}

\* malformed lines: faces of two and of five references, s lines whose token
\* is no integer, is negative or is written in base 16, and a line no case of
\* parseLine recognizes; with them a good face and a g and a usemtl line
FaultLines ==
    {Face(<<RefV(1), RefV(1), RefV(1)>>),
     Face(<<RefV(1), RefV(1)>>),
     Face(<<RefV(1), RefV(1), RefV(1), RefV(1), RefV(1)>>),
     Line("s", "", <<<<"x">>>>),
     Line("s", "", <<<<"-", "1">>>>),
     Line("s", "", <<<<"0", "X", "2">>>>),
     Line("?", "", <<>>),
     Line("g", "a", <<>>),
     Line("usemtl", "m", <<>>)}

\* a face and a line that both passes report
PlainLines == {Face(<<RefV(1), RefV(1), RefV(1)>>), Line("?", "", <<>>)}

\* the lines the input source can yield next
Lines(a, pp) ==
    IF a = "geom" THEN ComponentLines(pp) \cup GeomFaces
    ELSE IF a = "faults" THEN {VLine(Len(pp.vertCoord) \div 3 + 1)} \cup FaultLines
    ELSE IF a = "rejected" THEN RejectedLines(pp)
    ELSE IF a = "plain" THEN {VLine(Len(pp.vertCoord) \div 3 + 1)} \cup PlainLines
    ELSE {VLine(Len(pp.vertCoord) \div 3 + 1)} \cup GroupLines

----------------------------------------------------------------------------
(* The state machine *)

NoReload == [o |-> NewObj, err |-> "", panic |-> FALSE, log |-> <<>>]

\* no concurrent readObj call is running
NoCalls == <<>>

\* no readLib call is under way
NoLib == <<>>

\* readObj is entered with an input source and the option IgnoreNormals
InitOptions(a, ignoreNormals) ==
    /\ pc = "read"
    /\ alphabet = a
    /\ opts = [IgnoreNormals |-> ignoreNormals, LogStats |-> FALSE]
    /\ p = NewParser
    /\ o = NewObj
    /\ pos = 0
    /\ err = ""
    /\ log = <<>>
    /\ refLog = <<>>
    /\ out = <<>>
    /\ werr = ""
    /\ o2 = NoReload
    /\ calls = NoCalls
    /\ mtl = NoLib

InitWith(a) == InitOptions(a, FALSE)

Init == InitWith("geom")

InitGroups == InitWith("groups")

InitIgnore == InitOptions("geom", TRUE)

InitFaults == InitWith("faults")

InitPlain == InitWith("plain")

InitRejected == InitWith("rejected")

\* readLines: a line is read with its terminator
ReadLine ==
    /\ pc = "read"
    /\ Len(p.lineBuf) + 1 < MaxLines
    /\ \E line \in Lines(alphabet, p) :
        \E r \in {readLinesStep(p, line)} :
            /\ p' = r.p
            /\ log' = log \o r.log
    /\ UNCHANGED <<pc, alphabet, opts, o, pos, err, refLog, out, werr, o2, calls, mtl>>

\* readLines: the last line is read together with end-of-input; readObj goes
\* on to pass 2
ReadEOF ==
    /\ pc = "read"
    /\ \E line \in Lines(alphabet, p) \cup {Blank} :
        \E r \in {readLinesStep(p, line)} :
            \E s \in {startScan(r.p, o)} :
                /\ p' = s.p
                /\ o' = s.o
                /\ log' = log \o r.log
    /\ pc' = "scan"
    /\ UNCHANGED <<alphabet, opts, pos, err, refLog, out, werr, o2, calls, mtl>>

\* a read failure handled like a non-fatal error: readObj goes on to pass 2
ReadFailGoesOn ==
    /\ pc = "read"
    /\ err' = "readLines: error"
    /\ \E s \in {startScan([p EXCEPT !.lineCount = @ + 1], o)} :
           /\ p' = s.p
           /\ o' = s.o
    /\ pc' = "scan"
    /\ UNCHANGED <<alphabet, opts, pos, log, refLog, out, werr, o2, calls, mtl>>

\* readLines: the source reports a read failure; readObj returns the error
ReadFail ==
    /\ pc = "read"
    /\ p' = [p EXCEPT !.lineCount = @ + 1]
    /\ err' = "readLines: error"
    /\ pc' = "fatal"
    /\ UNCHANGED <<alphabet, opts, o, pos, log, refLog, out, werr, o2, calls, mtl>>

\* pass 2 starts over instead of replaying the last buffered line
ScanLineStartsOver ==
    /\ pc = "scan"
    /\ pos < Len(p.lineBuf)
    /\ pos' = (pos + 1) % Len(p.lineBuf)
    /\ UNCHANGED <<pc, alphabet, opts, p, o, err, log, refLog, out, werr, o2, calls, mtl>>

\* scanLines: the next buffered line is replayed
ScanLine ==
    /\ pc = "scan"
    /\ pos < Len(p.lineBuf)
    /\ \E r \in {scanLinesStep(p, o, p.lineBuf[pos + 1], opts)} :
           /\ p' = r.p
           /\ o' = r.o
           /\ log' = log \o r.log
           /\ refLog' = refLog \o r.evs
           /\ pc' = IF r.panic THEN "panic" ELSE "scan"
    /\ pos' = pos + 1
    /\ UNCHANGED <<alphabet, opts, err, out, werr, o2, calls, mtl>>

\* readObj step 3: empty groups dropped, stride set up, nil error returned
Output ==
    /\ pc = "scan"
    /\ pos = Len(p.lineBuf)
    /\ \E r \in {output(p, o, opts)} :
           /\ o' = r.o
           /\ log' = log \o r.log
    /\ pc' = "done"
    /\ UNCHANGED <<alphabet, opts, p, pos, err, refLog, out, werr, o2, calls, mtl>>

\* ToWriter on the decoded Obj
Write ==
    /\ pc = "done"
    /\ \E w \in {ToWriter(o)} :
           /\ out' = w.out
           /\ werr' = w.err
    /\ pc' = "written"
    /\ UNCHANGED <<alphabet, opts, p, o, pos, err, log, refLog, o2, calls, mtl>>

\* the written text is decoded again (it ends with a line terminator, so the
\* line read with end-of-input is empty)
Reload ==
    /\ pc = "written"
    /\ werr = ""
    /\ o2' = readObj(out \o <<Blank>>, opts)
    /\ pc' = "reloaded"
    /\ UNCHANGED <<alphabet, opts, p, o, pos, err, log, refLog, out, werr, calls, mtl>>

\* the coordinates and the index values handed to NewObjFromVertex
VertexCoords == {<<>>, <<1, 1, 1>>}

IndexValues == {0, 1, 65535, 65536}

IndexLists == UNION {[1..n -> IndexValues] : n \in 0..MaxIndices}

\* NewObjFromVertex is called instead of readObj
FromVertex ==
    /\ pc = "read"
    /\ p = NewParser
    /\ \E coord \in VertexCoords, indices \in IndexLists :
           o' = NewObjFromVertex(coord, indices)
    /\ pc' = "vertex"
    /\ UNCHANGED <<alphabet, opts, p, pos, err, log, refLog, out, werr, o2, calls, mtl>>

\* ToWriter on the Obj NewObjFromVertex returned
WriteVertex ==
    /\ pc = "vertex"
    /\ \E w \in {ToWriter(o)} :
           /\ out' = w.out
           /\ werr' = w.err
    /\ pc' = "vertexWritten"
    /\ UNCHANGED <<alphabet, opts, p, o, pos, err, log, refLog, o2, calls, mtl>>

Next ==
    \/ ReadLine
    \/ ReadEOF
    \/ ReadFail
    \/ ScanLine
    \/ Output
    \/ Write
    \/ Reload

Spec == Init /\ [][Next]_vars

SpecGroups == InitGroups /\ [][Next]_vars

SpecIgnore == InitIgnore /\ [][Next]_vars

SpecFaults == InitFaults /\ [][Next]_vars

SpecRejected == InitRejected /\ [][Next]_vars

\* readObj alone, from its entry to its return
NextDecode ==
    \/ ReadLine
    \/ ReadEOF
    \/ ReadFail
    \/ ScanLine
    \/ Output

\* scanLines: the range loop goes on to the next buffered line
ScanTurn == pc = "scan" /\ pos < Len(p.lineBuf) /\ pos' = pos + 1

\* readObj is one synchronous call: the source ends the input or fails after
\* finitely many lines, the loop of scanLines takes its next turn while a
\* buffered line is left, and readObj goes on to return after it
SpecDecode ==
    /\ InitPlain
    /\ [][NextDecode]_vars
    /\ WF_vars(ReadEOF \/ ReadFail)
    /\ WF_pos(ScanTurn)
    /\ WF_vars(Output)

\* the decoder on the group directives, or NewObjFromVertex, then the writer
NextVertex ==
    \/ Next
    \/ FromVertex
    \/ WriteVertex

SpecVertex == InitGroups /\ [][NextVertex]_vars

----------------------------------------------------------------------------
(* Concurrent readObj calls *)

\* two calls run concurrently
CallIds == 1..2

\* readObj is entered: the call is handed its own options and makes its own
\* objParser and Obj
NewCall(ignoreNormals) ==
    [pc |-> "read",
     opts |-> [IgnoreNormals |-> ignoreNormals, LogStats |-> FALSE],
     p |-> NewParser, o |-> NewObj, pos |-> 0, log |-> <<>>]

\* the lines the input source of a call can yield next: components, and a
\* face of position//normal references, the second one relative
CallLines(pp) ==
    {VLine(Len(pp.vertCoord) \div 3 + 1),
     VnLine(Len(pp.normCoord) \div 3 + 1),
     Face(<<Ref(1, FALSE, 0, TRUE, 1), Ref(0 - 1, FALSE, 0, TRUE, 0 - 1),
            Ref(1, FALSE, 0, TRUE, 1)>>)}

\* call 1 stores normals, call 2 ignores them
InitCalls ==
    /\ pc = "read"
    /\ alphabet = "calls"
    /\ opts = [IgnoreNormals |-> FALSE, LogStats |-> FALSE]
    /\ p = NewParser
    /\ o = NewObj
    /\ pos = 0
    /\ err = ""
    /\ log = <<>>
    /\ refLog = <<>>
    /\ out = <<>>
    /\ werr = ""
    /\ o2 = NoReload
    /\ calls = [c \in CallIds |-> NewCall(c = 2)]
    /\ mtl = NoLib

\* every call works on the welding table of call 1
callParserShared(cs, c) == [cs[c].p EXCEPT !.indexTable = cs[1].p.indexTable]

\* the objParser a call hands to scanLines: the one it made on entry
callParser(cs, c) == cs[c].p

\* readLines of call c: a line is read with its terminator
CallReadLine(c) ==
    /\ calls[c].pc = "read"
    /\ Len(calls[c].p.lineBuf) + 1 < MaxCallLines
    /\ \E line \in CallLines(calls[c].p) :
        \E r \in {readLinesStep(calls[c].p, line)} :
            calls' = [calls EXCEPT ![c].p = r.p, ![c].log = @ \o r.log]
    /\ UNCHANGED <<pc, alphabet, opts, p, o, pos, err, log, refLog, out, werr, o2, mtl>>

\* readLines of call c: the last line is read together with end-of-input
CallReadEOF(c) ==
    /\ calls[c].pc = "read"
    /\ \E line \in CallLines(calls[c].p) \cup {Blank} :
        \E r \in {readLinesStep(calls[c].p, line)} :
            \E s \in {startScan(r.p, calls[c].o)} :
                calls' = [calls EXCEPT ![c].p = s.p, ![c].o = s.o,
                                       ![c].log = @ \o r.log,
                                       ![c].pc = "scan"]
    /\ UNCHANGED <<pc, alphabet, opts, p, o, pos, err, log, refLog, out, werr, o2, mtl>>

\* scanLines of call c: the next buffered line is replayed
CallScanLine(c) ==
    /\ calls[c].pc = "scan"
    /\ calls[c].pos < Len(calls[c].p.lineBuf)
    /\ \E r \in {scanLinesStep(callParser(calls, c), calls[c].o,
                                calls[c].p.lineBuf[calls[c].pos + 1],
                                calls[c].opts)} :
           calls' = [calls EXCEPT ![c].p = r.p, ![c].o = r.o,
                                  ![c].log = @ \o r.log,
                                  ![c].pos = @ + 1,
                                  ![c].pc = IF r.panic THEN "panic" ELSE "scan"]
    /\ UNCHANGED <<pc, alphabet, opts, p, o, pos, err, log, refLog, out, werr, o2, mtl>>

\* readObj step 3 of call c
CallOutput(c) ==
    /\ calls[c].pc = "scan"
    /\ calls[c].pos = Len(calls[c].p.lineBuf)
    /\ \E r \in {output(calls[c].p, calls[c].o, calls[c].opts)} :
           calls' = [calls EXCEPT ![c].o = r.o, ![c].log = @ \o r.log,
                                  ![c].pc = "done"]
    /\ UNCHANGED <<pc, alphabet, opts, p, o, pos, err, log, refLog, out, werr, o2, mtl>>

\* the steps of the calls interleave in any order
NextCalls ==
    \/ \E c \in CallIds : CallReadLine(c)
    \/ \E c \in CallIds : CallReadEOF(c)
    \/ \E c \in CallIds : CallScanLine(c)
    \/ \E c \in CallIds : CallOutput(c)

SpecCalls == InitCalls /\ [][NextCalls]_vars

----------------------------------------------------------------------------
(* ToWriter on a Mesh the caller filled in *)

\* the IndexCount values of the groups of such a Mesh, in order
MeshCounts == {<<3>>, <<0, 3>>, <<3, 3>>, <<6>>, <<3, 1>>}

RECURSIVE SumSeq(_)
SumSeq(q) == IF q = <<>> THEN 0 ELSE q[1] + SumSeq(Tail(q))

\* groups that follow one another in Indices; the second one is named
MeshGroups(counts) ==
    [i \in 1..Len(counts) |->
        [Name |-> IF i = 1 THEN "" ELSE "a", Smooth |-> 0, Usemtl |-> "",
         IndexBegin |-> SumSeq(SubSeq(counts, 1, i - 1)),
         IndexCount |-> counts[i]]]

\* an Obj with n vertex records of the stride the two flags give, whose
\* floats tell their places in Coord
Mesh(text, norm, n, counts, indices) ==
    setupStride([NewObj EXCEPT
        !.TextCoordFound = text,
        !.NormCoordFound = norm,
        !.Coord = [k \in 1..(n * (3 + (IF text THEN 2 ELSE 0)
                                     + (IF norm THEN 3 ELSE 0))) |-> k],
        !.Indices = indices,
        !.Groups = MeshGroups(counts)])

Meshes ==
    UNION {{Mesh(text, norm, n, counts, indices) :
               text \in BOOLEAN, norm \in BOOLEAN, n \in 1..MaxElements,
               indices \in [1..SumSeq(counts) -> 0..(MaxElements - 1)]} :
           counts \in MeshCounts}

\* the Obj is public data: ToWriter is handed a Mesh as it stands
InitMeshes ==
    /\ pc = "done"
    /\ alphabet = "mesh"
    /\ opts = [IgnoreNormals |-> FALSE, LogStats |-> FALSE]
    /\ p = NewParser
    /\ o \in Meshes
    /\ pos = 0
    /\ err = ""
    /\ log = <<>>
    /\ refLog = <<>>
    /\ out = <<>>
    /\ werr = ""
    /\ o2 = NoReload
    /\ calls = NoCalls
    /\ mtl = NoLib

NextWriter == Write

SpecWriter == InitMeshes /\ [][NextWriter]_vars

----------------------------------------------------------------------------
(* readLib: the material library *)

\* libParser.currMaterial is nil; a material name is never empty, the line
\* being trimmed before its prefix "newmtl " is cut off
NoMaterial == ""

\* &Material{Name: newmtl}
NewMaterial(name) == [Name |-> name, MapKd |-> "", Kd |-> <<0, 0, 0>>]

\* NewMaterialLib: a map without keys
NewMaterialLib == <<>>

\* the result of parseLibLine: [p, lib, e]; e = "" is nil; the bool it
\* returns is ErrNonFatal on every path
LL(p1, lib, e) == [p |-> p1, lib |-> lib, e |-> e]

\* parseLibLine on a newmtl line
newmtlLine(p1, lib, newmtl) ==
    LL([p1 EXCEPT !.currMaterial = newmtl],
       IF newmtl \in DOMAIN lib THEN lib ELSE lib @@ (newmtl :> NewMaterial(newmtl)),
       "")

\* parseLibLine on a Kd line whose fields parsed as color
kdLine(p1, lib, color) ==
    IF p1.currMaterial = NoMaterial THEN LL(p1, lib, "undefined material for Kd")
    ELSE IF ~color.ok THEN LL(p1, lib, "parsing error for Kd")
    ELSE LL(p1, [lib EXCEPT ![p1.currMaterial].Kd = color.v], "")

\* parseLibLine on a map_Kd line
mapKdLine(p1, lib, mapKd) ==
    IF p1.currMaterial = NoMaterial THEN LL(p1, lib, "undefined material for map_Kd")
    ELSE LL(p1, [lib EXCEPT ![p1.currMaterial].MapKd = mapKd], "")

\* the keywords parseLibLine accepts and skips
SkippedKeywords ==
    {"map_Ka", "map_d", "map_Bump", "Ns", "Ka", "Ke", "Ks", "Ni", "d", "illum",
     "Tf", "Tr"}

\* parseLibLine
parseLibLine(p1, lib, line) ==
    CASE line.kw \in {"", "#"} -> LL(p1, lib, "")
      [] line.kw = "newmtl" -> newmtlLine(p1, lib, line.arg)
      [] line.kw = "Kd" -> kdLine(p1, lib, parseFloatVector3Space(line.f))
      [] line.kw = "map_Kd" -> mapKdLine(p1, lib, line.arg)
      [] line.kw \in SkippedKeywords -> LL(p1, lib, "")
      [] OTHER -> LL(p1, lib, "unexpected")

\* options.log: a nil *ObjParserOptions is dereferenced
LogPanics(m, e) == e # "" /\ m.nilOptions

\* readLib, the loop body on a line read without error: the error of the
\* line is logged and the loop goes on
libLoopTurn(m, line, r) ==
    [m EXCEPT !.lineCount = @ + 1,
              !.lines = Append(@, line),
              !.parser = r.p,
              !.lib = r.lib,
              !.log = @ \o ErrLog("readLib: ", r.e),
              !.pc = IF LogPanics(m, r.e) THEN "panic" ELSE "read"]

\* readLib, the line read together with io.EOF: its error is logged and
\* returned, without one the loop is left and nil is returned
libLastTurn(m, line, r) ==
    [m EXCEPT !.lineCount = @ + 1,
              !.lines = Append(@, line),
              !.parser = r.p,
              !.lib = r.lib,
              !.log = @ \o ErrLog("readLib: ", r.e),
              !.err = r.e,
              !.atEOF = TRUE,
              !.pc = IF LogPanics(m, r.e) THEN "panic" ELSE "returned"]

\* a library of two materials: newmtl lines, a Kd line of three numbers and
\* one of two, a map_Kd line, a line of a skipped keyword and a line of an
\* unknown keyword
LibLines ==
    {Line("newmtl", "a", <<>>), Line("newmtl", "b", <<>>),
     Line("Kd", "", <<NatStr(1), NatStr(2), NatStr(3)>>),
     Line("Kd", "", <<NatStr(1), NatStr(2)>>),
     Line("map_Kd", "t", <<>>),
     Line("Ns", "", <<>>),
     Line("?", "", <<>>)}

\* readLib is entered, with options or with nil
InitLib ==
    /\ pc = "lib"
    /\ alphabet = "lib"
    /\ opts = [IgnoreNormals |-> FALSE, LogStats |-> FALSE]
    /\ p = NewParser
    /\ o = NewObj
    /\ pos = 0
    /\ err = ""
    /\ log = <<>>
    /\ refLog = <<>>
    /\ out = <<>>
    /\ werr = ""
    /\ o2 = NoReload
    /\ calls = NoCalls
    /\ \E nilOptions \in BOOLEAN :
           mtl = [pc |-> "read", nilOptions |-> nilOptions, lineCount |-> 0,
                  parser |-> [currMaterial |-> NoMaterial],
                  lib |-> NewMaterialLib, lines |-> <<>>, log |-> <<>>,
                  err |-> "", atEOF |-> FALSE]

\* readLib: a line is read with its newline
LibReadLine ==
    /\ pc = "lib"
    /\ mtl.pc = "read"
    /\ Len(mtl.lines) < MaxLibLines - 1
    /\ \E line \in LibLines \cup {Blank} :
           mtl' = libLoopTurn(mtl, line, parseLibLine(mtl.parser, mtl.lib, line))
    /\ UNCHANGED <<pc, alphabet, opts, p, o, pos, err, log, refLog, out, werr, o2, calls>>

\* readLib: the last line is read together with io.EOF; it is empty if the
\* input ends with a newline
LibReadEOF ==
    /\ pc = "lib"
    /\ mtl.pc = "read"
    /\ \E line \in LibLines \cup {Blank} :
           mtl' = libLastTurn(mtl, line, parseLibLine(mtl.parser, mtl.lib, line))
    /\ UNCHANGED <<pc, alphabet, opts, p, o, pos, err, log, refLog, out, werr, o2, calls>>

\* readLib: the reader fails with an error other than io.EOF
LibReadFail ==
    /\ pc = "lib"
    /\ mtl.pc = "read"
    /\ mtl' = [mtl EXCEPT !.lineCount = @ + 1, !.err = "readLib: error",
                          !.pc = "returned"]
    /\ UNCHANGED <<pc, alphabet, opts, p, o, pos, err, log, refLog, out, werr, o2, calls>>

NextLib == LibReadLine \/ LibReadEOF \/ LibReadFail

SpecLib == InitLib /\ [][NextLib]_vars

----------------------------------------------------------------------------
(* Properties *)

Decoded == pc \in {"done", "written", "reloaded"}

\* an addVertex call that returned nil
Succeeded(ev) == ev.e = "" /\ ~ev.panic

FaceLineNumbers == {i \in 1..Len(p.lineBuf) : p.lineBuf[i].kw = "f"}

\* every face line has 3 or 4 references and every reference resolved in range
WellFormedInput ==
    /\ \A i \in FaceLineNumbers : Len(p.lineBuf[i].f) \in {3, 4}
    /\ \A k \in 1..Len(refLog) : Succeeded(refLog[k])

\* C1: decoding X, writing the result and decoding the written text yields the
\* Indices and the Coord of decoding X, for every well-formed X
C1_RoundTrip ==
    (pc = "reloaded" /\ WellFormedInput) =>
        (~o2.panic /\ o2.o.Indices = o.Indices /\ o2.o.Coord = o.Coord)

\* C2: after decoding any input, len(Indices) is a multiple of 3
C2_TriangleList == Decoded => Len(o.Indices) % 3 = 0

\* C3: after decoding any input, every index is non-negative and the record
\* of its unified vertex lies wholly within Coord
C3_IndicesInBounds ==
    Decoded =>
        \A k \in 1..Len(o.Indices) :
            /\ o.Indices[k] >= 0
            /\ ((o.Indices[k] + 1) * o.StrideSize) \div 4 <= Len(o.Coord)

\* the position, texture and normal a key stands for, as stored by pass 1
KeyPosition(key) ==
    SubSeq(p.vertCoord, 3 * ParseInt10(key[1]).v + 1, 3 * ParseInt10(key[1]).v + 3)

\* C4: after decoding any input, Coord is a sequence of records of StrideSize
\* bytes, one per unified vertex, each starting with the position of its vertex
C4_EqualRecords ==
    Decoded =>
        /\ Len(o.Coord) * 4 = o.StrideSize * p.indexCount
        /\ \A e \in p.indexTable :
              SubSeq(o.Coord, (e.idx * o.StrideSize) \div 4 + 1,
                     (e.idx * o.StrideSize) \div 4 + 3) = KeyPosition(e.key)

RECURSIVE SumIndexCount(_)
SumIndexCount(groups) ==
    IF groups = <<>> THEN 0
    ELSE groups[1].IndexCount + SumIndexCount(Tail(groups))

\* C5: after decoding any input, the IndexCount values of the retained groups
\* sum to len(Indices)
C5_GroupCountsSum == Decoded => SumIndexCount(o.Groups) = Len(o.Indices)

\* C5, its case: indices were added and a group marked empty was dropped
C5_Witness ==
    /\ Decoded
    /\ Len(o.Indices) > 0
    /\ Len(o.Groups) < p.currGroup

\* the unified indices of the addVertex calls that returned nil, in order
RECURSIVE PushedIndices(_)
PushedIndices(evs) ==
    IF evs = <<>> THEN <<>>
    ELSE (IF Succeeded(evs[1]) THEN <<evs[1].idx>> ELSE <<>>) \o PushedIndices(Tail(evs))

\* C6: the references that resolve in range to one composite key append one
\* vertex record between them (the first does) and all append the same unified
\* index; no key is given two unified indices
C6_Deduplication ==
    /\ \A j, k \in 1..Len(refLog) :
          (j < k /\ Succeeded(refLog[j]) /\ Succeeded(refLog[k])
                 /\ refLog[j].key = refLog[k].key) =>
              (refLog[k].idx = refLog[j].idx /\ refLog[k].added = 0)
    /\ \A k \in 1..Len(refLog) :
          (Succeeded(refLog[k])
             /\ \A j \in 1..(k - 1) :
                   ~(Succeeded(refLog[j]) /\ refLog[j].key = refLog[k].key)) =>
              refLog[k].added > 0
    /\ pc # "panic" => o.Indices = PushedIndices(refLog)
    /\ \A e1, e2 \in p.indexTable : e1.key = e2.key => e1 = e2

\* C6, its case: one key referenced three times or more, and a second key
C6_Witness ==
    /\ \E k \in 1..Len(refLog) :
          Cardinality({j \in 1..Len(refLog) :
              Succeeded(refLog[j]) /\ refLog[j].key = refLog[k].key}) >= 3
    /\ Cardinality(p.indexTable) >= 2

\* the references an input can hold, each with its text
RefTable ==
    {[text |-> Ref(r.v, r.tt, r.t, r.nn, r.n), r |-> r] :
        r \in {x \in [v : (0 - 3)..3, tt : BOOLEAN, t : (0 - 3)..3,
                      nn : BOOLEAN, n : (0 - 3)..3] :
                  (~x.tt => x.t = 0) /\ (~x.nn => x.n = 0)}}

\* the indices each reference text was written from
RefIndex == [t \in {e.text : e \in RefTable} |-> (CHOOSE e \in RefTable : e.text = t).r]

RefOf(text) == RefIndex[text]

\* number of lines of directive kw among the first n lines of the input
CountLines(kw, n) == Cardinality({i \in 1..n : p.lineBuf[i].kw = kw})

\* the 0-based component the claim C7 gives for index i, count lines of the
\* kind preceding the face line
Resolved(i, count) == IF i < 0 THEN count + i ELSE i - 1

\* the composite key C7 gives for the reference of history entry ev
ClaimedKey(ev) ==
    <<Itoa(Resolved(RefOf(ev.text).v, CountLines("v", ev.line - 1))),
      IF RefOf(ev.text).tt
      THEN Itoa(Resolved(RefOf(ev.text).t, CountLines("vt", ev.line - 1))) ELSE <<>>,
      IF RefOf(ev.text).nn
      THEN Itoa(Resolved(RefOf(ev.text).n, CountLines("vn", ev.line - 1))) ELSE <<>>>>

NoZeroIndex(ev) ==
    /\ RefOf(ev.text).v # 0
    /\ RefOf(ev.text).tt => RefOf(ev.text).t # 0
    /\ RefOf(ev.text).nn => RefOf(ev.text).n # 0

\* C7: a negative index -k resolves to (count - k), count being the number of
\* lines of its kind before the face line, and a positive index i to i - 1; a
\* relative and an absolute reference to the same vertex get the same unified
\* index and the later one adds no vertex data
C7_RelativeIndex ==
    /\ \A k \in 1..Len(refLog) :
          (refLog[k].key # <<>> /\ NoZeroIndex(refLog[k])) =>
              refLog[k].key = ClaimedKey(refLog[k])
    /\ \A j, k \in 1..Len(refLog) :
          (j < k /\ Succeeded(refLog[j]) /\ Succeeded(refLog[k])
                 /\ NoZeroIndex(refLog[j]) /\ NoZeroIndex(refLog[k])
                 /\ ClaimedKey(refLog[j]) = ClaimedKey(refLog[k])) =>
              (refLog[k].idx = refLog[j].idx /\ refLog[k].added = 0)

\* C7, its case: a relative reference, resolved while fewer v lines had been
\* counted than the input holds, meets an absolute reference to the same vertex
C7_Witness ==
    \E j, k \in 1..Len(refLog) :
        /\ Succeeded(refLog[j]) /\ Succeeded(refLog[k])
        /\ RefOf(refLog[j].text).v > 0
        /\ RefOf(refLog[k].text).v < 0
        /\ refLog[j].idx = refLog[k].idx
        /\ CountLines("v", refLog[k].line - 1) < CountLines("v", Len(p.lineBuf))

\* the input with its v, vt and vn lines moved before all other lines
ComponentsFirst(lines) ==
    SelectSeq(lines, LAMBDA l : l.kw \in {"v", "vt", "vn"})
    \o SelectSeq(lines, LAMBDA l : l.kw \notin {"v", "vt", "vn"})

\* every index of every face line is absolute
OnlyAbsolute(lines) ==
    \A i \in 1..Len(lines) :
        lines[i].kw = "f" =>
            \A k \in 1..Len(lines[i].f) :
                /\ RefOf(lines[i].f[k]).v > 0
                /\ RefOf(lines[i].f[k]).tt => RefOf(lines[i].f[k]).t > 0
                /\ RefOf(lines[i].f[k]).nn => RefOf(lines[i].f[k]).n > 0

SameMesh(a, b) ==
    /\ a.Indices = b.Indices
    /\ a.Coord = b.Coord
    /\ a.TextCoordFound = b.TextCoordFound
    /\ a.NormCoordFound = b.NormCoordFound

\* C8: an input whose face lines use absolute positive indices decodes to the
\* same Indices and Coord as the input with its component lines moved before
\* the faces, and an absolute position index that names a v line of the input
\* is never reported out of range, wherever that v line stands
C8_ForwardReference ==
    /\ (pc = "done" /\ OnlyAbsolute(p.lineBuf)) =>
          SameMesh(readObj(ComponentsFirst(p.lineBuf), opts).o, o)
    /\ \A k \in 1..Len(refLog) :
          (refLog[k].key # <<>>
             /\ RefOf(refLog[k].text).v > 0
             /\ RefOf(refLog[k].text).v <= CountLines("v", Len(p.lineBuf))) =>
              refLog[k].e # "invalid vertex index"

\* C8, its case: a reference resolved to a v line that stands after its face
C8_Witness ==
    /\ pc = "done"
    /\ OnlyAbsolute(p.lineBuf)
    /\ \E k \in 1..Len(refLog) :
          /\ Succeeded(refLog[k])
          /\ RefOf(refLog[k].text).v > CountLines("v", refLog[k].line)
          /\ o.Coord # <<>>

\* the history entries of the addVertex calls made for line n
CallsOf(n) == SelectSeq(refLog, LAMBDA ev : ev.line = n)

\* the face lines replayed so far whose calls all returned nil
GoodFaces ==
    {n \in 1..pos : /\ p.lineBuf[n].kw = "f"
                    /\ Len(p.lineBuf[n].f) \in {3, 4}
                    /\ \A k \in 1..Len(CallsOf(n)) : Succeeded(CallsOf(n)[k])}

\* the references of a face in the order C9 gives
ClaimedOrder(f) ==
    IF Len(f) = 4 THEN <<f[1], f[2], f[3], f[3], f[4], f[1]>>
    ELSE <<f[1], f[2], f[3]>>

\* C9: a face of four in-range references appends the unified indices of
\* v0,v1,v2,v2,v3,v0 in that order, a face of three those of v0,v1,v2
C9_QuadTriangulation ==
    /\ \A n \in GoodFaces :
          /\ [k \in 1..Len(CallsOf(n)) |-> CallsOf(n)[k].text] = ClaimedOrder(p.lineBuf[n].f)
          /\ \A j, k \in 1..Len(CallsOf(n)) :
                CallsOf(n)[j].text = CallsOf(n)[k].text =>
                    CallsOf(n)[j].idx = CallsOf(n)[k].idx
    /\ pc # "panic" => o.Indices = PushedIndices(refLog)

\* C9, its case: a quad of in-range references over two unified vertices
C9_Witness ==
    \E n \in GoodFaces :
        /\ Len(p.lineBuf[n].f) = 4
        /\ Len(CallsOf(n)) = 6
        /\ CallsOf(n)[1].idx # CallsOf(n)[2].idx

\* the layout C10 gives for the two found-flags: <<size, texture, normal>>,
\* an offset of -1 where the claim names none
ClaimedStride(text, norm) ==
    IF text /\ norm THEN <<32, 12, 20>>
    ELSE IF text THEN <<20, 12, 0 - 1>>
    ELSE IF norm THEN <<24, 0 - 1, 12>>
    ELSE <<12, 0 - 1, 0 - 1>>

StrideAsClaimed(ob) ==
    /\ ob.StrideOffsetPosition = 0
    /\ ob.StrideSize = ClaimedStride(ob.TextCoordFound, ob.NormCoordFound)[1]
    /\ ClaimedStride(ob.TextCoordFound, ob.NormCoordFound)[2] \in {0 - 1, ob.StrideOffsetTexture}
    /\ ClaimedStride(ob.TextCoordFound, ob.NormCoordFound)[3] \in {0 - 1, ob.StrideOffsetNormal}

\* C10: the stride layout is the function of the two found-flags the claim
\* tabulates, with StrideOffsetPosition 0
C10_StrideLayout ==
    /\ Decoded => StrideAsClaimed(o)
    /\ (pc = "reloaded" /\ ~o2.panic) => StrideAsClaimed(o2.o)

\* C10, its case: a decoded mesh with texture and normal coordinates
C10_Witness ==
    /\ Decoded
    /\ o.TextCoordFound
    /\ o.NormCoordFound
    /\ o.StrideSize = 32

\* the mtllib lines of the input, in order
MtllibLines == SelectSeq(p.lineBuf, LAMBDA l : l.kw = "mtllib")

\* C11: Mtllib after decoding is the name given by the first mtllib line, and
\* every later mtllib line produces one diagnostic
C11_FirstMtllib ==
    Decoded =>
        /\ MtllibLines # <<>> => o.Mtllib = MtllibLines[1].arg
        /\ MtllibLines = <<>> => o.Mtllib = ""
        /\ Len(SelectSeq(log, LAMBDA m : m = "parseLine: mtllib redefinition"))
               = (IF MtllibLines = <<>> THEN 0 ELSE Len(MtllibLines) - 1)

\* the 0-based index a part of a composite key stands for
KeyIndex(part) == ParseInt10(part).v

\* component index i lies outside an array of n floats, size floats a component
Outside(i, n, size) == i < 0 \/ i >= n \div size

\* the reference of history entry ev resolved to a position, texture or normal
\* index outside its component array
OutOfRange(ev) ==
    /\ ev.key # <<>>
    /\ \/ Outside(KeyIndex(ev.key[1]), Len(p.vertCoord), 3)
       \/ ev.key[2] # <<>> /\ Outside(KeyIndex(ev.key[2]), Len(p.textCoord), 2)
       \/ ev.key[3] # <<>> /\ ~opts.IgnoreNormals
              /\ Outside(KeyIndex(ev.key[3]), Len(p.normCoord), 3)

\* C12: a face reference whose resolved position, texture or normal index is
\* out of range returns a non-fatal error, and the decode never crashes
C12_OutOfRangeNonFatal ==
    /\ pc # "panic"
    /\ \A k \in 1..Len(refLog) :
          OutOfRange(refLog[k]) => (refLog[k].e # "" /\ ~refLog[k].panic)

\* C13: an input read to end-of-input without a read failure is decoded to
\* the end: every buffered line is replayed and readObj returns a nil error,
\* whatever non-fatal errors its lines raise
C13_NonFatalNeverStops ==
    /\ pc # "panic"
    /\ Decoded => (err = "" /\ pos = Len(p.lineBuf) /\ p.lineCount = Len(p.lineBuf))

\* C14: a read failure at any line of pass 1 ends the decode at once: readObj
\* returns a non-nil error with the Obj as pass 1 left it, no further line is
\* read and pass 2 never runs
C14_FatalReadError ==
    /\ pc = "fatal" =>
          (err # "" /\ o = NewObj /\ pos = 0 /\ refLog = <<>> /\ out = <<>>)
    /\ err # "" => (pc = "fatal" /\ p.lineCount = Len(p.lineBuf) + 1)

\* C14, its case: the read fails after a face line and another line were read
C14_Witness ==
    /\ pc = "fatal"
    /\ Len(p.lineBuf) >= 2
    /\ FaceLineNumbers # {}

\* ToWriter has returned on the Obj o
Written == pc \in {"written", "reloaded", "vertexWritten"}

\* position in groups of the first group whose IndexCount is no multiple of 3,
\* Len(groups) + 1 if there is none
RECURSIVE FirstBadGroup(_)
FirstBadGroup(groups) ==
    IF groups = <<>> \/ groups[1].IndexCount % 3 # 0 THEN 1
    ELSE 1 + FirstBadGroup(Tail(groups))

\* the face lines, in order, of the first n groups of ob
RECURSIVE FacesOfGroups(_, _)
FacesOfGroups(ob, n) ==
    IF n = 0 THEN <<>>
    ELSE FacesOfGroups(ob, n - 1)
         \o [k \in 1..(ob.Groups[n].IndexCount \div 3) |->
                [j \in 1..3 |-> ob.Indices[ob.Groups[n].IndexBegin + 3 * (k - 1) + j]]]

\* C15: ToWriter returns an error exactly when some group has an IndexCount
\* that is no multiple of 3, and then the face lines written are those of the
\* groups before the first such group
C15_WriterError ==
    Written =>
        /\ (werr # "") = (FirstBadGroup(o.Groups) <= Len(o.Groups))
        /\ Len(SelectSeq(out, LAMBDA l : l.kw = "f"))
               = Len(FacesOfGroups(o, FirstBadGroup(o.Groups) - 1))

\* C15, its case: a group of whole triangles, then a group of one index
C15_Witness ==
    /\ Written
    /\ werr # ""
    /\ FirstBadGroup(o.Groups) = 2
    /\ Len(SelectSeq(out, LAMBDA l : l.kw = "f")) = 1

\* readObj or NewObjFromVertex has returned the Obj o
Built == Decoded \/ pc \in {"vertex", "vertexWritten"}

\* C18: after decoding and after NewObjFromVertex, BigIndexFound is true
\* exactly when some element of Indices is greater than 65535
C18_BigIndexFlag ==
    Built => (o.BigIndexFound = (\E k \in 1..Len(o.Indices) : o.Indices[k] > 65535))

\* C18, its case: the flag is raised by 65536 and not by 65535
C18_Witness ==
    /\ pc = "vertex"
    /\ o.BigIndexFound
    /\ o.Indices = <<65535, 65536, 0>>

\* line i and line j > i are usemtl lines naming different materials, with no
\* face line and no other usemtl line between them
MaterialTwice(i, j) ==
    /\ i < j
    /\ p.lineBuf[i].kw = "usemtl"
    /\ p.lineBuf[j].kw = "usemtl"
    /\ p.lineBuf[i].arg # p.lineBuf[j].arg
    /\ \A k \in (i + 1)..(j - 1) : p.lineBuf[k].kw \notin {"f", "usemtl"}

\* C16 as stated: when a usemtl line is followed by a usemtl line naming a
\* different material with no face line in between, no group carrying the
\* first material is in the final group list (unless a later usemtl line
\* names that material again) and no diagnostic is emitted
C16_AsStated ==
    Decoded =>
        \A i, j \in 1..Len(p.lineBuf) :
            (MaterialTwice(i, j)
               /\ \A k \in (j + 1)..Len(p.lineBuf) :
                     ~(p.lineBuf[k].kw = "usemtl" /\ p.lineBuf[k].arg = p.lineBuf[i].arg)) =>
                \A g \in 1..Len(o.Groups) : o.Groups[g].Usemtl # p.lineBuf[i].arg

\* scanLines replays a usemtl line that names a material other than the one
\* the active group has
ReplacingMaterial ==
    /\ pc = "scan"
    /\ pos < Len(p.lineBuf)
    /\ p.lineBuf[pos + 1].kw = "usemtl"
    /\ o.Groups[p.currGroup].Usemtl \notin {"", p.lineBuf[pos + 1].arg}

\* the kept groups whose diagnostic readObj emits
SmallGroups(groups) == SelectSeq(groups, LAMBDA g : g.IndexCount < 3)

\* C16, amended: when a usemtl line replaces the material of the active group,
\* that group is marked exactly if it holds no index at that point, with no
\* diagnostic; a marked group never changes again, is absent from the final
\* group list and gets no diagnostic, and every unmarked group is kept
C16_GroupPruning ==
    /\ [](pc = "scan" =>
            \A g \in 1..Len(o.Groups) : o.Groups[g].IndexCount < 0 => g < p.currGroup)
    /\ [](Decoded => \A g \in 1..Len(o.Groups) : o.Groups[g].IndexCount >= 0)
    /\ [][(ReplacingMaterial /\ pos' = pos + 1) =>
            /\ p'.currGroup = p.currGroup + 1
            /\ Len(o'.Groups) = Len(o.Groups) + 1
            /\ o'.Groups[p'.currGroup].Usemtl = p.lineBuf[pos + 1].arg
            /\ o'.Groups[p.currGroup] =
                  IF o.Groups[p.currGroup].IndexCount = 0
                  THEN [o.Groups[p.currGroup] EXCEPT !.IndexCount = 0 - 1]
                  ELSE o.Groups[p.currGroup]
            /\ log' = log]_vars
    /\ [][(pc = "scan" /\ pc' = "scan") =>
            \A g \in 1..Len(o.Groups) :
                o.Groups[g].IndexCount < 0 => o'.Groups[g] = o.Groups[g]]_vars
    /\ [][(pc = "scan" /\ pc' = "done") =>
            /\ o'.Groups = SelectSeq(o.Groups, LAMBDA g : g.IndexCount >= 0)
            /\ Len(log') = Len(log) + Len(SmallGroups(o'.Groups))]_vars

\* C16, its case: the group that carried the first of two materials is
\* dropped without a diagnostic, and the group of the second holds a face
C16_Witness ==
    /\ Decoded
    /\ \E i, j \in 1..Len(p.lineBuf) : MaterialTwice(i, j)
    /\ p.currGroup = 2
    /\ Len(o.Groups) = 1
    /\ o.Groups[1].IndexCount = 3
    /\ log = <<>>

\* the reference of history entry ev has the form v//n
SkipsTexture(ev) == ~RefOf(ev.text).tt /\ RefOf(ev.text).nn

\* C17: a reference v//n has no texture part in its key and stores position
\* and normal only; TextCoordFound and NormCoordFound say whether some
\* reference that returned nil carries a texture index or a normal index,
\* whatever vt and vn lines the input holds
C17_SkippedTexture ==
    /\ \A k \in 1..Len(refLog) :
          (SkipsTexture(refLog[k]) /\ refLog[k].key # <<>>) =>
              /\ refLog[k].key[2] = <<>>
              /\ Succeeded(refLog[k]) => refLog[k].added \in {0, 6}
    /\ Decoded =>
          /\ o.TextCoordFound =
                (\E k \in 1..Len(refLog) : Succeeded(refLog[k]) /\ RefOf(refLog[k].text).tt)
          /\ o.NormCoordFound =
                (\E k \in 1..Len(refLog) : Succeeded(refLog[k]) /\ RefOf(refLog[k].text).nn)

\* C17, its case: the input holds a vt line, its references are v//n, and the
\* decoded Obj has normals and no texture
C17_Witness ==
    /\ Decoded
    /\ CountLines("vt", Len(p.lineBuf)) > 0
    /\ \E k \in 1..Len(refLog) :
          SkipsTexture(refLog[k]) /\ Succeeded(refLog[k]) /\ refLog[k].added = 6
    /\ ~o.TextCoordFound
    /\ o.StrideSize = 24
    /\ Len(o.Coord) = 6

\* no float of Coord is a float of a vn line
NoNormalStored(ob) ==
    \A k \in 1..Len(ob.Coord) :
        \A j \in 1..Len(p.normCoord) : ob.Coord[k] # p.normCoord[j]

\* C19: with IgnoreNormals set, after decoding any input no normal component
\* is stored in Coord, NormCoordFound is false and the stride has no normal
\* slot, whatever normal indices the face references carry
C19_IgnoreNormals ==
    /\ (Decoded /\ opts.IgnoreNormals) =>
          /\ ~o.NormCoordFound
          /\ o.StrideOffsetNormal = 0
          /\ o.StrideSize = (IF o.TextCoordFound THEN 20 ELSE 12)
          /\ NoNormalStored(o)
    /\ opts.IgnoreNormals =>
          \A k \in 1..Len(refLog) :
              Succeeded(refLog[k]) => refLog[k].added \in {0, 3, 5}
    /\ (pc = "reloaded" /\ opts.IgnoreNormals /\ ~o2.panic) =>
          (~o2.o.NormCoordFound /\ NoNormalStored(o2.o))

\* C19, its case: references with normal indices on stored vn lines were
\* decoded with IgnoreNormals set
C19_Witness ==
    /\ Decoded
    /\ opts.IgnoreNormals
    /\ Len(p.normCoord) > 0
    /\ \E k \in 1..Len(refLog) :
          /\ Succeeded(refLog[k])
          /\ RefOf(refLog[k].text).nn
          /\ refLog[k].added > 0

\* the input holds no face line
NoFaces == FaceLineNumbers = {}

\* C20: an input without face lines is decoded without error to an Obj with
\* empty Indices, ToWriter succeeds on that Obj, and the written text is
\* decoded without error
C20_NoFaces ==
    NoFaces =>
        /\ pc # "panic"
        /\ Decoded => (err = "" /\ o.Indices = <<>> /\ o.Coord = <<>>)
        /\ pc \in {"written", "reloaded"} => werr = ""
        /\ pc = "reloaded" => (o2.err = "" /\ ~o2.panic /\ o2.o.Indices = <<>>)

\* C20, its case: an input of a v line and directives that start and drop
\* groups was decoded, written and decoded again
C20_Witness ==
    /\ pc = "reloaded"
    /\ NoFaces
    /\ CountLines("v", Len(p.lineBuf)) > 0
    /\ Len(o.Groups) >= 2
    /\ Len(o.Groups) < p.currGroup

\* the outcome of call c is the outcome of readObj run alone on the lines
\* call c read, with the options of call c
SameAsAlone(c, r) ==
    /\ calls[c].pc = "done" =>
           ~r.panic /\ r.err = "" /\ r.o = calls[c].o /\ r.log = calls[c].log
    /\ calls[c].pc = "panic" => r.panic

\* C21: two readObj calls on independent inputs, each with its own options and
\* log, share no mutable state: a step of one call leaves the other call's
\* objParser, Obj, position and log as they were, and under every
\* interleaving of their steps each call ends with the Obj and the log of
\* readObj run alone on its input
C21_IndependentCalls ==
    /\ [](\A c \in CallIds :
             SameAsAlone(c, readObj(calls[c].p.lineBuf, calls[c].opts)))
    /\ [][\A c \in CallIds :
             calls'[c] # calls[c] =>
                 \A d \in CallIds \ {c} : calls'[d] = calls[d]]_vars

\* call 2 has ended with a mesh while call 1 is in the middle of pass 2 of a
\* different three-line input
C21_Witness ==
    /\ calls[1].pc = "scan" /\ calls[1].pos = 2
    /\ Len(calls[1].p.lineBuf) = 3
    /\ calls[2].pc = "done"
    /\ calls[2].o.Indices # <<>>
    /\ calls[2].p.lineBuf # calls[1].p.lineBuf

\* scanLines replays a line whose keyword is in kws
Replaying(kws) ==
    /\ pc = "scan"
    /\ pos < Len(p.lineBuf)
    /\ p.lineBuf[pos + 1].kw \in kws
    /\ pos' = pos + 1

\* the group the directives compare with
Active == o.Groups[p.currGroup]

\* the step leaves the group list and the active group as they were
GroupsUnchanged == p'.currGroup = p.currGroup /\ o'.Groups = o.Groups

\* the step sets one attribute of the active group and creates no group
ActiveBecomes(g) ==
    /\ p'.currGroup = p.currGroup
    /\ o'.Groups = [o.Groups EXCEPT ![p.currGroup] = g]

\* the step appends a group with these attributes to the list prev, empty and
\* starting at the current length of Indices, and makes it the active group
GroupOpened(prev, name, usemtl, smooth) ==
    /\ p'.currGroup = Len(o.Groups) + 1
    /\ o'.Groups = Append(prev, [Name |-> name, Usemtl |-> usemtl, Smooth |-> smooth,
                                 IndexBegin |-> Len(o.Indices), IndexCount |-> 0])

\* the step appends no index and no vertex data and emits no diagnostic
NoDataNoLog == o'.Indices = o.Indices /\ o'.Coord = o.Coord /\ log' = log

\* C22: on an o or g line, an unset name of the active group is set on it and
\* no group is created; a name equal to the active group's changes nothing;
\* any other name opens a new active group with that name, the previous
\* group's material and smoothing value, IndexBegin = len(Indices) and
\* IndexCount 0
C22_NameDirective ==
    [][Replaying({"o", "g"}) =>
         /\ NoDataNoLog
         /\ IF Active.Name = ""
            THEN ActiveBecomes([Active EXCEPT !.Name = p.lineBuf[pos + 1].arg])
            ELSE IF Active.Name = p.lineBuf[pos + 1].arg
            THEN GroupsUnchanged
            ELSE GroupOpened(o.Groups, p.lineBuf[pos + 1].arg,
                             Active.Usemtl, Active.Smooth)]_vars

\* C22, its case: a second name opened a group that carries the material and
\* the smoothing value of the group named first
C22_Witness ==
    /\ pc = "scan"
    /\ Len(o.Groups) >= 2
    /\ Active.Name = "b"
    /\ o.Groups[p.currGroup - 1].Name = "a"
    /\ Active.Usemtl = "m"
    /\ o.Groups[p.currGroup - 1].Usemtl = "m"

\* the group list with the active group marked if it holds no index
MarkedIfEmpty ==
    IF Active.IndexCount = 0
    THEN [o.Groups EXCEPT ![p.currGroup].IndexCount = 0 - 1]
    ELSE o.Groups

\* C23: on a usemtl line, an unset material of the active group is set on it;
\* a material equal to the active group's changes nothing; any other material
\* opens a new active group with that material and the previous group's name
\* and smoothing value, starting at len(Indices), and the replaced group gets
\* a negative IndexCount exactly when it holds no index at that moment
C23_MaterialDirective ==
    [][Replaying({"usemtl"}) =>
         /\ NoDataNoLog
         /\ IF Active.Usemtl = ""
            THEN ActiveBecomes([Active EXCEPT !.Usemtl = p.lineBuf[pos + 1].arg])
            ELSE IF Active.Usemtl = p.lineBuf[pos + 1].arg
            THEN GroupsUnchanged
            ELSE /\ GroupOpened(MarkedIfEmpty, Active.Name,
                                p.lineBuf[pos + 1].arg, Active.Smooth)
                 /\ (o'.Groups[p.currGroup].IndexCount < 0) = (Active.IndexCount = 0)]_vars

\* C23, its case: a second material replaced a named group that holds no
\* index, which is marked, and the new group carries its name and smoothing
\* value
C23_Witness ==
    /\ pc = "scan"
    /\ Len(o.Groups) >= 2
    /\ Active = [Name |-> "a", Usemtl |-> "n", Smooth |-> 1,
                 IndexBegin |-> 0, IndexCount |-> 0]
    /\ o.Groups[p.currGroup - 1] =
          [Name |-> "a", Usemtl |-> "m", Smooth |-> 1,
           IndexBegin |-> 0, IndexCount |-> 0 - 1]

\* the value the smoothing tokens of the input sources stand for: off is 0,
\* an integer in base 10 or with a base prefix is its value, x is no integer
ClaimedSmooth(f) ==
    CASE f = <<<<"o", "f", "f">>>> -> [ok |-> TRUE, v |-> 0]
      [] f = <<<<"1">>>> -> [ok |-> TRUE, v |-> 1]
      [] f = <<<<"-", "1">>>> -> [ok |-> TRUE, v |-> 0 - 1]
      [] f = <<<<"0", "X", "2">>>> -> [ok |-> TRUE, v |-> 2]
      [] OTHER -> [ok |-> FALSE, v |-> 0]

FaceReferenceError ==
    /\ Replaying({"f"})
    /\ Len(p.lineBuf[pos + 1].f) \in 3..4
    /\ pc' = "scan"
    /\ log' # log

\* C25: a face line that raises a non-fatal error in any of its references is
\* skipped as a whole: Indices, Coord, the active group's IndexCount, the
\* unified-vertex counter and the welding table are after the line what they
\* were before it
C25_SkippedFace ==
    [][FaceReferenceError =>
         /\ o'.Indices = o.Indices
         /\ o'.Coord = o.Coord
         /\ o'.Groups[p.currGroup].IndexCount = Active.IndexCount
         /\ p'.indexCount = p.indexCount
         /\ p'.indexTable = p.indexTable]_vars

\* C26: a face line with fewer than 3 or more than 4 references is a
\* non-fatal error: it is reported, the decode goes on, and the line appends
\* no index and no vertex data, stores no unified vertex and changes no group
C26_FaceArity ==
    [][(Replaying({"f"}) /\ Len(p.lineBuf[pos + 1].f) \notin 3..4) =>
         /\ pc' = "scan"
         /\ log' = Append(log, "scanLines: bad face size")
         /\ o' = o
         /\ GroupsUnchanged
         /\ p'.indexCount = p.indexCount
         /\ p'.indexTable = p.indexTable
         /\ refLog' = refLog]_vars

\* C26, its case: after a good face, a face of two and a face of five
\* references were reported and left the three indices as they were
C26_Witness ==
    /\ pc = "scan"
    /\ pos = 4
    /\ Len(p.lineBuf[3].f) = 2 /\ p.lineBuf[3].kw = "f"
    /\ Len(p.lineBuf[4].f) = 5 /\ p.lineBuf[4].kw = "f"
    /\ Len(o.Indices) = 3
    /\ Active.IndexCount = 3
    /\ log = <<"scanLines: bad face size", "scanLines: bad face size">>

\* C27: after decoding, the Smooth of every group is 0 or a positive integer
C27_SmoothNonNegative ==
    Decoded => \A g \in 1..Len(o.Groups) : o.Groups[g].Smooth >= 0

\* C28: two references get the same unified index only if they agree on the
\* resolved position index and on the presence and the value of the texture
\* and of the normal index; a reference without texture (or normal) index
\* never shares a unified index with one whose texture (or normal) index
\* resolves to 0
C28_KeySeparation ==
    \A j, k \in 1..Len(refLog) :
        (Succeeded(refLog[j]) /\ Succeeded(refLog[k])
            /\ refLog[j].idx = refLog[k].idx) =>
            /\ RefOf(refLog[j].text).tt = RefOf(refLog[k].text).tt
            /\ RefOf(refLog[j].text).nn = RefOf(refLog[k].text).nn
            /\ (NoZeroIndex(refLog[j]) /\ NoZeroIndex(refLog[k])) =>
                   ClaimedKey(refLog[j]) = ClaimedKey(refLog[k])

\* C28, its case: a reference whose texture index resolves to 0 and a
\* reference to the same position without texture index got two unified
\* indices
C28_Witness ==
    \E j, k \in 1..Len(refLog) :
        /\ Succeeded(refLog[j]) /\ Succeeded(refLog[k])
        /\ RefOf(refLog[j].text).tt /\ ~RefOf(refLog[j].text).nn
        /\ refLog[j].key[2] = <<"0">>
        /\ ~RefOf(refLog[k].text).tt /\ ~RefOf(refLog[k].text).nn
        /\ refLog[j].key[1] = refLog[k].key[1]
        /\ refLog[j].idx # refLog[k].idx

\* number of entries of the log equal to msg
Logged(msg) == Len(SelectSeq(log, LAMBDA m : m = msg))

\* C29: pass 1 appends every line it reads to the replay buffer, the line read
\* with end-of-input included, in input order and whether or not the line
\* raised a non-fatal error; pass 2 leaves the buffer as it is and visits its
\* entries one by one in that order, each exactly once, before readObj
\* returns
C29_ReplayBuffer ==
    /\ [](pc = "read" => p.lineCount = Len(p.lineBuf))
    /\ [](pc = "scan" => p.lineCount = pos)
    /\ [](Decoded => pos = Len(p.lineBuf))
    /\ [](pc \in {"read", "scan", "done"} =>
             /\ Logged("readLines: unexpected") = CountLines("?", Len(p.lineBuf))
             /\ Logged("scanLines: unexpected") = CountLines("?", pos))
    /\ [][(pc = "read" /\ pc' \in {"read", "scan"}) =>
             /\ Len(p'.lineBuf) = Len(p.lineBuf) + 1
             /\ SubSeq(p'.lineBuf, 1, Len(p.lineBuf)) = p.lineBuf
             /\ p'.lineBuf[Len(p'.lineBuf)] \in Lines(alphabet, p) \cup {Blank}]_vars
    /\ [][(pc = "scan" /\ pc' # "done") =>
             /\ p'.lineBuf = p.lineBuf
             /\ pos' = pos + 1
             /\ \A k \in (Len(refLog) + 1)..Len(refLog') :
                    /\ refLog'[k].line = pos + 1
                    /\ p.lineBuf[pos + 1].kw = "f"
                    /\ \E n \in 1..Len(p.lineBuf[pos + 1].f) :
                           p.lineBuf[pos + 1].f[n] = refLog'[k].text]_vars
    /\ [][pc' = "done" => (pos = Len(p.lineBuf) /\ p' = p /\ pos' = pos)]_vars

\* C29, its case: an input whose second line raised an error in pass 1 and
\* whose last line is a face read with end-of-input was replayed whole
C29_Witness ==
    /\ pc = "done"
    /\ Len(p.lineBuf) = 3
    /\ p.lineBuf[1].kw = "v"
    /\ p.lineBuf[2].kw = "?"
    /\ p.lineBuf[3].kw = "f"
    /\ Len(o.Indices) = 3
    /\ log = <<"readLines: unexpected", "scanLines: unexpected">>

\* the groups of a group list that hold 1 or 2 indices
Undersized(groups) == SelectSeq(groups, LAMBDA g : g.IndexCount \in {1, 2})

\* C30: a group that ends the decode with 1 or 2 indices is kept in the final
\* group list, and readObj emits one diagnostic for every group it keeps with
\* fewer than 3 indices
C30_UndersizedGroup ==
    /\ [][(pc = "scan" /\ pc' = "done") =>
             /\ Undersized(o'.Groups) = Undersized(o.Groups)
             /\ log' = log \o [k \in 1..Len(SmallGroups(o'.Groups)) |->
                                   "readObj: BAD GROUP SIZE"]]_vars
    /\ [](Decoded =>
             Logged("readObj: BAD GROUP SIZE") >= Len(Undersized(o.Groups)))

\* C30, its case: two groups of one index each, left by faces that failed at
\* their second reference, are in the final list with a diagnostic each
C30_Witness ==
    /\ pc = "done"
    /\ Len(o.Groups) = 2
    /\ o.Groups[1].IndexCount = 1
    /\ o.Groups[2].IndexCount = 1
    /\ o.Groups[2].IndexBegin = 1
    /\ Logged("readObj: BAD GROUP SIZE") = 2

\* every group of ob holds whole triangles
WholeTriangles(ob) ==
    \A g \in 1..Len(ob.Groups) : ob.Groups[g].IndexCount % 3 = 0

\* the lines of directive kw among the lines written
WrittenLines(kw) == SelectSeq(out, LAMBDA l : l.kw = kw)

\* the position line C31 gives for vertex record k: the first three floats of
\* the record
ClaimedPositionLine(ob, k) ==
    Line("v", "", [i \in 1..3 |-> FormatFloat(ob.Coord[(k - 1) * (ob.StrideSize \div 4) + i])])

\* the face line C31 gives for three indices: each reference is the index + 1
\* in the slash format the two flags select
ClaimedFaceLine(ob, tri) ==
    Face([j \in 1..3 |->
             Ref(tri[j] + 1, ob.TextCoordFound, tri[j] + 1,
                 ob.NormCoordFound, tri[j] + 1)])

\* C31: for a Mesh whose groups all hold whole triangles, ToWriter returns
\* nil and writes NumberOfElements position lines in buffer order, one texture
\* line per vertex exactly if TextCoordFound and one normal line per vertex
\* exactly if NormCoordFound, and for each group in order IndexCount/3 face
\* lines over its range of Indices in order, each reference being the index
\* plus 1 in the format v, v/t, v//n or v/t/n the flags select
C31_WriterOutput ==
    (pc = "written" /\ WholeTriangles(o)) =>
        /\ werr = ""
        /\ WrittenLines("v") =
              [k \in 1..NumberOfElements(o) |-> ClaimedPositionLine(o, k)]
        /\ Len(WrittenLines("vt")) = (IF o.TextCoordFound THEN NumberOfElements(o) ELSE 0)
        /\ Len(WrittenLines("vn")) = (IF o.NormCoordFound THEN NumberOfElements(o) ELSE 0)
        /\ WrittenLines("f") =
              [k \in 1..Len(FacesOfGroups(o, Len(o.Groups))) |->
                  ClaimedFaceLine(o, FacesOfGroups(o, Len(o.Groups))[k])]

\* C31, its case: a Mesh of two vertex records with texture and normals and
\* two groups of one triangle each was written
C31_Witness ==
    /\ pc = "written"
    /\ werr = ""
    /\ o.TextCoordFound /\ o.NormCoordFound
    /\ NumberOfElements(o) = 2
    /\ Len(o.Groups) = 2
    /\ o.Groups[1].IndexCount = 3 /\ o.Groups[2].IndexCount = 3
    /\ o.Indices = <<0, 1, 0, 1, 0, 1>>
    /\ Len(WrittenLines("vt")) = 2

\* the Obj holds coord and indices as one unnamed group without texture and
\* normals
BuiltFrom(ob, coord, indices) ==
    /\ ob.Coord = coord
    /\ ob.Indices = indices
    /\ ob.Groups = <<[Name |-> "", Usemtl |-> "", Smooth |-> 0,
                      IndexBegin |-> 0, IndexCount |-> Len(indices)]>>
    /\ ~ob.TextCoordFound
    /\ ~ob.NormCoordFound
    /\ ob.StrideSize = 12

\* C32: NewObjFromVertex(coord, indices) returns no error and an Obj with
\* Coord equal to coord, Indices equal to indices, one unnamed group with
\* IndexBegin 0 and IndexCount len(indices), both found-flags false and
\* StrideSize 12, whether or not len(indices) is a multiple of 3 and the
\* indices are in range of coord
C32_DirectConstruction ==
    pc = "vertex" =>
        /\ err = ""
        /\ BuiltFrom(o, o.Coord, o.Indices)
        /\ \A coord \in VertexCoords, indices \in IndexLists :
               BuiltFrom(NewObjFromVertex(coord, indices), coord, indices)

\* C32, its case: no coordinates and two indices, both out of range
C32_Witness ==
    /\ pc = "vertex"
    /\ o.Coord = <<>>
    /\ o.Indices = <<0, 1>>
    /\ o.Groups[1].IndexCount = 2

\* C33: the decode of an input whose source reports end-of-input or an error
\* after finitely many lines terminates; pass 1 reads each line once, pass 2
\* visits each buffered line once, and no line is processed again
C33_Termination ==
    /\ <>(pc \in {"done", "fatal"})
    /\ [](pc = "read" => (pos = 0 /\ p.lineCount = Len(p.lineBuf)))
    /\ [](pc = "scan" => (pos <= Len(p.lineBuf) /\ p.lineCount = pos))
    /\ [][pc = "read" =>
             \/ pc' = "read" /\ Len(p'.lineBuf) = Len(p.lineBuf) + 1
             \/ pc' = "scan" /\ Len(p'.lineBuf) = Len(p.lineBuf) + 1 /\ pos' = 0
             \/ pc' = "fatal" /\ p'.lineBuf = p.lineBuf]_vars
    /\ [][pc = "scan" =>
             /\ p'.lineBuf = p.lineBuf
             /\ \/ pc' = "scan" /\ pos' = pos + 1
                \/ pc' = "done" /\ pos' = pos /\ pos = Len(p.lineBuf)]_vars
    /\ [][(pc \in {"done", "fatal"}) =>
             (pc' = pc /\ p' = p /\ o' = o /\ pos' = pos)]_vars

\* C33, its case: readObj returned after both passes went over an input of
\* four lines, one of which both passes reported
C33_Witness ==
    /\ pc = "done"
    /\ Len(p.lineBuf) = 4
    /\ pos = 4
    /\ Logged("readLines: unexpected") = 1
    /\ Logged("scanLines: unexpected") = 1
    /\ Len(o.Indices) = 3

\* the sum of the IndexCount values of the first n groups of groups
CountsBefore(groups, n) == SumSeq([k \in 1..n |-> groups[k].IndexCount])

\* C34: after decoding, the IndexBegin of every retained group is the sum of
\* the IndexCount values of the retained groups before it (0 for the first),
\* and IndexBegin + IndexCount of the last retained group is len(Indices)
C34_GroupsPartition ==
    Decoded =>
        /\ \A g \in 1..Len(o.Groups) :
               o.Groups[g].IndexBegin = CountsBefore(o.Groups, g - 1)
        /\ o.Groups # <<>> =>
               o.Groups[Len(o.Groups)].IndexBegin + o.Groups[Len(o.Groups)].IndexCount
                   = Len(o.Indices)

\* C34, its case: two groups are retained, each with the three indices of
\* one triangle, the second one starting where the first one ends
C34_Witness ==
    /\ Decoded
    /\ Len(o.Groups) = 2
    /\ o.Groups[1].IndexCount = 3
    /\ o.Groups[2].IndexBegin = 3
    /\ o.Groups[2].IndexCount = 3

\* a step of pass 2: one buffered line is replayed
Replayed == pc = "scan" /\ pos < Len(p.lineBuf) /\ pos' = pos + 1

\* the step changes no group other than the active one and removes none
EarlierGroupsKept ==
    /\ Len(o'.Groups) >= Len(o.Groups)
    /\ \A g \in 1..Len(o.Groups) :
           g # p.currGroup => o'.Groups[g] = o.Groups[g]

\* a step that keeps the active group gives it every index the step appends
IndicesGoToActive ==
    p'.currGroup = p.currGroup =>
        /\ Len(o'.Groups) = Len(o.Groups)
        /\ o'.Groups[p.currGroup].IndexBegin = Active.IndexBegin
        /\ o'.Groups[p.currGroup].IndexCount - Active.IndexCount
               = Len(o'.Indices) - Len(o.Indices)

\* a step that starts a group appends it, appends no index, and leaves the
\* replaced group as it was or, if it is empty, with the sentinel as its count
ReplacedGroupKept ==
    p'.currGroup # p.currGroup =>
        /\ Len(o'.Groups) = Len(o.Groups) + 1
        /\ p'.currGroup = Len(o'.Groups)
        /\ o'.Indices = o.Indices
        /\ \/ o'.Groups[p.currGroup] = Active
           \/ /\ Active.IndexCount = 0
              /\ o'.Groups[p.currGroup] = [Active EXCEPT !.IndexCount = 0 - 1]

\* C35: at every step of pass 2 the active group is the last element of the
\* group list and indices are added only to it; once a new group is started,
\* Name, Usemtl, Smooth, IndexBegin and IndexCount of the earlier group never
\* change again, apart from the sentinel set at the moment it is replaced
C35_ActiveGroupIsLast ==
    /\ [](pc = "scan" => p.currGroup = Len(o.Groups))
    /\ [][Replayed => (EarlierGroupsKept /\ IndicesGoToActive /\ ReplacedGroupKept)]_vars

\* C35, its case: a face was added to a second group while the first group
\* still holds the three indices it had when it was replaced
C35_Witness ==
    /\ pc = "scan"
    /\ p.currGroup = 2
    /\ Len(o.Groups) = 2
    /\ o.Groups[1].IndexBegin = 0
    /\ o.Groups[1].IndexCount = 3
    /\ Active.IndexBegin = 3
    /\ Active.IndexCount = 3

\* the k-th addVertex call returned nil and no earlier such call had its key
FirstAppearance(k) ==
    /\ Succeeded(refLog[k])
    /\ \A j \in 1..(k - 1) :
           ~(Succeeded(refLog[j]) /\ keyString(refLog[j].key) = keyString(refLog[k].key))

\* the number of distinct keys that appeared before the k-th addVertex call
KeysBefore(k) == Cardinality({j \in 1..(k - 1) : FirstAppearance(j)})

\* C36: at every step of pass 2 the unified indices assigned so far are
\* exactly 0..n-1, in order of first appearance of their composite keys, where
\* n is the number of distinct keys seen; every value in Indices is less than
\* n; the welding table never maps a key to another index than the one it
\* first assigned
C36_DenseUnifiedIndices ==
    /\ [](/\ {e.idx : e \in p.indexTable} = 0..(p.indexCount - 1)
          /\ Cardinality(p.indexTable) = p.indexCount
          /\ p.indexCount = KeysBefore(Len(refLog) + 1)
          /\ \A k \in 1..Len(refLog) :
                 FirstAppearance(k) => refLog[k].idx = KeysBefore(k)
          /\ \A k \in 1..Len(o.Indices) :
                 o.Indices[k] >= 0 /\ o.Indices[k] < p.indexCount
          /\ \A e1, e2 \in p.indexTable :
                 keyString(e1.key) = keyString(e2.key) => e1.idx = e2.idx)
    /\ [][p.indexTable \subseteq p'.indexTable]_vars

\* C36, its case: during pass 2 a second key got index 1 and the first key,
\* referenced again after it, got index 0 again
C36_Witness ==
    /\ pc = "scan"
    /\ p.indexCount = 2
    /\ o.Indices = <<0, 1, 0>>

\* C37: after a decode that returns a nil error Groups is non-empty; the
\* group active at the end of pass 2 never carries the sentinel count and is
\* the last group of the list readObj returns
C37_AtLeastOneGroup ==
    /\ []((pc = "scan") => (o.Groups # <<>> /\ Active.IndexCount >= 0))
    /\ []((Decoded /\ err = "") => o.Groups # <<>>)
    /\ [][(pc = "scan" /\ pc' = "done") =>
            /\ err' = ""
            /\ o'.Groups # <<>>
            /\ o'.Groups[Len(o'.Groups)] = Active]_vars

\* C37, its case: the first group was marked and dropped, and the group that
\* replaced it, active at the end of pass 2 and without any index, is returned
C37_Witness ==
    /\ Decoded
    /\ err = ""
    /\ p.currGroup = 2
    /\ Len(o.Groups) = 1
    /\ o.Groups[1].Usemtl = "n"
    /\ o.Groups[1].IndexCount = 0

\* number of lines of kind kw among the first n lines of the input from which
\* pass 1 stored a component
StoredBefore(kw, n) ==
    Cardinality({i \in 1..n :
        p.lineBuf[i].kw = kw /\ classifyVertex(NewParser, p.lineBuf[i]).e = ""})

\* C38: a negative position index -k of a face line resolves to the k-th most
\* recent position pass 1 stored from the v lines preceding the face line,
\* also when some of these v lines were rejected as malformed; likewise for
\* the normal index and the vn lines
C38_RelativeAfterRejected ==
    \A k \in 1..Len(refLog) :
        /\ (/\ refLog[k].key # <<>>
            /\ RefOf(refLog[k].text).v < 0
            /\ StoredBefore("v", refLog[k].line - 1) + RefOf(refLog[k].text).v >= 0) =>
               refLog[k].key[1]
                   = Itoa(StoredBefore("v", refLog[k].line - 1) + RefOf(refLog[k].text).v)
        /\ (/\ refLog[k].key # <<>>
            /\ RefOf(refLog[k].text).nn
            /\ RefOf(refLog[k].text).n < 0
            /\ StoredBefore("vn", refLog[k].line - 1) + RefOf(refLog[k].text).n >= 0) =>
               refLog[k].key[3]
                   = Itoa(StoredBefore("vn", refLog[k].line - 1) + RefOf(refLog[k].text).n)

\* the lines of lines on which parseLibLine, called in turn from the state
\* (p1, lib), returns nil
RECURSIVE OtherLines(_, _, _)
OtherLines(p1, lib, lines) ==
    IF lines = <<>> THEN <<>>
    ELSE (IF parseLibLine(p1, lib, lines[1]).e = "" THEN <<lines[1]>> ELSE <<>>)
         \o OtherLines(parseLibLine(p1, lib, lines[1]).p,
                       parseLibLine(p1, lib, lines[1]).lib, Tail(lines))

\* the library parseLibLine builds from lines, starting from lib
RECURSIVE BuiltLib(_, _, _)
BuiltLib(p1, lib, lines) ==
    IF lines = <<>> THEN lib
    ELSE BuiltLib(parseLibLine(p1, lib, lines[1]).p,
                  parseLibLine(p1, lib, lines[1]).lib, Tail(lines))

\* readLib, called with options, read its input to the end
LibReadToEnd == mtl # NoLib /\ ~mtl.nilOptions /\ mtl.atEOF

\* C39: when lines of a material library raise non-fatal parse errors, readLib
\* returns a nil error and the library built from the other lines, whether
\* the offending line is the last line of the input or an earlier one
C39_LibLastLine ==
    LibReadToEnd =>
        /\ mtl.pc = "returned"
        /\ mtl.err = ""
        /\ mtl.lib = BuiltLib([currMaterial |-> NoMaterial], NewMaterialLib,
                              OtherLines([currMaterial |-> NoMaterial],
                                         NewMaterialLib, mtl.lines))

====
